---- MODULE Spec2Model ----
(***************************************************************************)
(* Model of the report pipeline of generar-informes-n8n:                   *)
(*   - build-structure (src/data/build_structure.py and the                *)
(*     POST /build-structure handler of src/libreoffice-python/app.py):    *)
(*     date normalisation, grouping of weekly records by product,          *)
(*     per-product KPI / chart summary, slide descriptor list;             *)
(*   - generate (src/data/generate_pdf.py and POST /generate): decks,      *)
(*     conversion to PDF and assembly of the final report(s) over a        *)
(*     shared /data directory.                                             *)
(*                                                                         *)
(* Conventions.  A Python str that the code inspects character by          *)
(* character (dates, numeric strings, "Semana", product names) is a tuple  *)
(* of one-character strings.  A JSON value is a tagged record [t, i, s].   *)
(* A Python dict is a sequence of [k, v] entries in insertion order.       *)
(***************************************************************************)
EXTENDS Integers, Sequences, FiniteSets, TLC

(***************************************************************************)
(* JSON values                                                             *)
(***************************************************************************)
VInt(n)  == [t |-> "int",   i |-> n, s |-> <<>>]
VFlt(n)  == [t |-> "float", i |-> n, s |-> <<>>]   \* i is the value in tenths
VStr(cs) == [t |-> "str",   i |-> 0, s |-> cs]
VBool(b) == [t |-> "bool",  i |-> IF b THEN 1 ELSE 0, s |-> <<>>]
VNull    == [t |-> "null",  i |-> 0, s |-> <<>>]
VNaN     == [t |-> "nan",   i |-> 0, s |-> <<>>]   \* float('nan')
VInf     == [t |-> "inf",   i |-> 0, s |-> <<>>]   \* float('inf')
VList(n) == [t |-> "list",  i |-> n, s |-> <<>>]   \* a list of n elements
VMissing == [t |-> "missing", i |-> 0, s |-> <<>>] \* key absent: dict.get gives None

\* Python truth value of a JSON value (if fecha_iso:, if data["save"]:)
Truthy(v) ==
    CASE v.t = "int"     -> v.i # 0
      [] v.t = "float"   -> v.i # 0
      [] v.t = "bool"    -> v.i # 0
      [] v.t = "str"     -> Len(v.s) > 0
      [] v.t = "list"    -> v.i > 0
      [] v.t = "nan"     -> TRUE
      [] v.t = "inf"     -> TRUE
      [] OTHER           -> FALSE

(***************************************************************************)
(* Python dicts: insertion-ordered sequences of entries                    *)
(***************************************************************************)
Entry(k, v) == [k |-> k, v |-> v]

DictHas(d, k) == \E n \in 1..Len(d) : d[n].k = k

DictGet(d, k, default) ==
    IF DictHas(d, k) THEN d[CHOOSE n \in 1..Len(d) : d[n].k = k].v ELSE default

\* d[k] = v : an existing key keeps its position, a new key goes last
DictSet(d, k, v) ==
    IF DictHas(d, k)
    THEN [n \in 1..Len(d) |-> IF d[n].k = k THEN Entry(k, v) ELSE d[n]]
    ELSE Append(d, Entry(k, v))

DictKeys(d) == [n \in 1..Len(d) |-> d[n].k]

RECURSIVE SumSeq(_)
SumSeq(xs) == IF xs = <<>> THEN 0 ELSE Head(xs) + SumSeq(Tail(xs))

(***************************************************************************)
(* Characters                                                              *)
(***************************************************************************)
Digits == {"0", "1", "2", "3", "4", "5", "6", "7", "8", "9"}

DigitVal(c) ==
    CASE c = "0" -> 0 [] c = "1" -> 1 [] c = "2" -> 2 [] c = "3" -> 3
      [] c = "4" -> 4 [] c = "5" -> 5 [] c = "6" -> 6 [] c = "7" -> 7
      [] c = "8" -> 8 [] c = "9" -> 9

AllDigits(cs) == \A n \in 1..Len(cs) : cs[n] \in Digits

RECURSIVE NatVal(_)
NatVal(cs) == IF cs = <<>> THEN 0
              ELSE 10 * NatVal(SubSeq(cs, 1, Len(cs) - 1)) + DigitVal(cs[Len(cs)])

\* str.strip() over the model's only whitespace character, the space
RECURSIVE LStrip(_)
LStrip(cs) == IF cs # <<>> /\ Head(cs) = " " THEN LStrip(Tail(cs)) ELSE cs

RECURSIVE RStrip(_)
RStrip(cs) == IF cs # <<>> /\ cs[Len(cs)] = " "
              THEN RStrip(SubSeq(cs, 1, Len(cs) - 1)) ELSE cs

Strip(cs) == RStrip(LStrip(cs))

\* index of the first occurrence of character c in cs, 0 when there is none
IndexOf(cs, c) ==
    IF \E n \in 1..Len(cs) : cs[n] = c
    THEN CHOOSE n \in 1..Len(cs) : cs[n] = c /\ \A m \in 1..(n - 1) : cs[m] # c
    ELSE 0

UpperChar(c) ==
    CASE c = "a" -> "A" [] c = "b" -> "B" [] c = "d" -> "D" [] c = "e" -> "E"
      [] c = "g" -> "G" [] c = "h" -> "H" [] c = "i" -> "I" [] c = "j" -> "J"
      [] c = "l" -> "L" [] c = "m" -> "M" [] c = "n" -> "N" [] c = "o" -> "O"
      [] c = "r" -> "R" [] c = "s" -> "S" [] c = "t" -> "T" [] c = "u" -> "U"
      [] c = "v" -> "V" [] c = "w" -> "W" [] c = "y" -> "Y" [] c = "z" -> "Z"
      [] OTHER -> c

Upper(cs) == [n \in 1..Len(cs) |-> UpperChar(cs[n])]

(***************************************************************************)
(* int(float(val)) of build_slide / build_slide_structure                  *)
(***************************************************************************)
\* float(str): [ok, inf, neg, int] ; int is the integer part of the magnitude.
\* Covers: surrounding spaces, a sign, digits with an optional point, and the
\* words inf / nan.  (The sample strings use no exponent and no underscore.)
ParseFloat(cs) ==
    LET st   == Strip(cs)
        sgn  == st # <<>> /\ Head(st) \in {"+", "-"}
        neg  == st # <<>> /\ Head(st) = "-"
        body == IF sgn THEN Tail(st) ELSE st
        dot  == IndexOf(body, ".")
        ip   == IF dot = 0 THEN body ELSE SubSeq(body, 1, dot - 1)
        fp   == IF dot = 0 THEN <<>> ELSE SubSeq(body, dot + 1, Len(body))
    IN  IF body = <<"i", "n", "f">>
        THEN [ok |-> TRUE, kind |-> "inf", neg |-> neg, int |-> 0]
        ELSE IF body = <<"n", "a", "n">>
        THEN [ok |-> TRUE, kind |-> "nan", neg |-> neg, int |-> 0]
        ELSE IF AllDigits(ip) /\ AllDigits(fp) /\ Len(ip) + Len(fp) > 0
        THEN [ok |-> TRUE, kind |-> "num", neg |-> neg, int |-> NatVal(ip)]
        ELSE [ok |-> FALSE, kind |-> "err", neg |-> FALSE, int |-> 0]

\* truncation toward zero of a value given in tenths
TruncTenths(n) == IF n >= 0 THEN n \div 10 ELSE -((-n) \div 10)

\* try: val = int(float(val)) except (ValueError, TypeError): val = 0
\* [raises |-> TRUE] is the OverflowError of int(inf), which is not caught.
CoerceInt(v) ==
    CASE v.t = "int"   -> [raises |-> FALSE, val |-> v.i]
      [] v.t = "bool"  -> [raises |-> FALSE, val |-> v.i]
      [] v.t = "float" -> [raises |-> FALSE, val |-> TruncTenths(v.i)]
      [] v.t = "nan"   -> [raises |-> FALSE, val |-> 0]
      [] v.t = "inf"   -> [raises |-> TRUE,  val |-> 0]
      [] v.t = "str"   ->
            LET p == ParseFloat(v.s)
            IN  IF ~p.ok \/ p.kind = "nan" THEN [raises |-> FALSE, val |-> 0]
                ELSE IF p.kind = "inf" THEN [raises |-> TRUE, val |-> 0]
                ELSE [raises |-> FALSE, val |-> IF p.neg THEN -p.int ELSE p.int]
      [] OTHER         -> [raises |-> FALSE, val |-> 0]

(***************************************************************************)
(* Calendar arithmetic of datetime / timedelta (proleptic Gregorian)       *)
(***************************************************************************)
MINYEAR == 1
MAXYEAR == 9999
MaxTimedeltaDays == 999999999

IsLeap(y) == (y % 4 = 0) /\ ((y % 100 # 0) \/ (y % 400 = 0))

DaysInMonth(y, m) ==
    IF m = 2 THEN (IF IsLeap(y) THEN 29 ELSE 28)
    ELSE IF m \in {4, 6, 9, 11} THEN 30 ELSE 31

\* number of days from 1970-01-01 to y-m-d
DaysFromCivil(y, m, d) ==
    LET yy  == IF m <= 2 THEN y - 1 ELSE y
        era == yy \div 400
        yoe == yy - era * 400
        mp  == IF m > 2 THEN m - 3 ELSE m + 9
        doy == (153 * mp + 2) \div 5 + d - 1
        doe == yoe * 365 + yoe \div 4 - yoe \div 100 + doy
    IN  era * 146097 + doe - 719468

\* the date that lies z days after 1970-01-01
CivilFromDays(z) ==
    LET zz  == z + 719468
        era == zz \div 146097
        doe == zz - era * 146097
        yoe == (doe - doe \div 1460 + doe \div 36524 - doe \div 146096) \div 365
        doy == doe - (365 * yoe + yoe \div 4 - yoe \div 100)
        mp  == (5 * doy + 2) \div 153
        d   == doy - (153 * mp + 2) \div 5 + 1
        m   == IF mp < 10 THEN mp + 3 ELSE mp - 9
        y   == yoe + era * 400 + (IF m <= 2 THEN 1 ELSE 0)
    IN  [year |-> y, month |-> m, day |-> d]

\* ExcelSerialDate with a plausible slip: the serial is counted from 1900-01-01
ExcelSerialDate_Base1900(n) ==
    IF n > MaxTimedeltaDays \/ n < -MaxTimedeltaDays
    THEN [raises |-> TRUE, year |-> 0, month |-> 0]
    ELSE LET z == DaysFromCivil(1900, 1, 1) + n
         IN  IF z < DaysFromCivil(MINYEAR, 1, 1) \/ z > DaysFromCivil(MAXYEAR, 12, 31)
             THEN [raises |-> TRUE, year |-> 0, month |-> 0]
             ELSE [raises |-> FALSE, year |-> CivilFromDays(z).year,
                                     month |-> CivilFromDays(z).month]

\* datetime(1899, 12, 30) + timedelta(days=n), n whole days; [raises] is the
\* OverflowError of an out-of-range timedelta or date
ExcelSerialDate(n) ==
    IF n > MaxTimedeltaDays \/ n < -MaxTimedeltaDays
    THEN [raises |-> TRUE, year |-> 0, month |-> 0]
    ELSE LET z == DaysFromCivil(1899, 12, 30) + n
         IN  IF z < DaysFromCivil(MINYEAR, 1, 1) \/ z > DaysFromCivil(MAXYEAR, 12, 31)
             THEN [raises |-> TRUE, year |-> 0, month |-> 0]
             ELSE [raises |-> FALSE, year |-> CivilFromDays(z).year,
                                     month |-> CivilFromDays(z).month]

(***************************************************************************)
(* Date strings                                                            *)
(***************************************************************************)
NoDate == [ok |-> FALSE, year |-> 0, month |-> 0]

\* datetime.strptime(s, "%Y-%m"): the format's pattern is
\* (\d\d\d\d)-(1[0-2]|0[1-9]|[1-9]), the first alternative that matches is
\* taken and any text left over is an error, as is the year 0.
StrptimeYm(cs) ==
    IF Len(cs) < 6 \/ ~AllDigits(SubSeq(cs, 1, 4)) \/ cs[5] # "-" THEN NoDate
    ELSE LET rest == SubSeq(cs, 6, Len(cs))
             two  == Len(rest) >= 2
                     /\ \/ rest[1] = "1" /\ rest[2] \in {"0", "1", "2"}
                        \/ rest[1] = "0" /\ rest[2] \in (Digits \ {"0"})
             one  == rest[1] \in (Digits \ {"0"})
             used == IF two THEN 2 ELSE IF one THEN 1 ELSE 0
             y    == NatVal(SubSeq(cs, 1, 4))
         IN  IF used = 0 \/ used # Len(rest) \/ y < MINYEAR THEN NoDate
             ELSE [ok |-> TRUE, year |-> y, month |-> NatVal(rest)]

\* fecha_iso.replace("Z", "+00:00"): every Z is replaced
RECURSIVE ReplaceZ(_)
ReplaceZ(cs) ==
    IF cs = <<>> THEN <<>>
    ELSE IF Head(cs) = "Z" THEN <<"+", "0", "0", ":", "0", "0">> \o ReplaceZ(Tail(cs))
    ELSE <<Head(cs)>> \o ReplaceZ(Tail(cs))

\* two digits below limit
TwoDigits(cs, limit) == Len(cs) = 2 /\ AllDigits(cs) /\ NatVal(cs) < limit

\* a UTC offset +HH:MM / -HH:MM
IsoOffset(cs) ==
    /\ Len(cs) = 6
    /\ cs[1] \in {"+", "-"}
    /\ TwoDigits(SubSeq(cs, 2, 3), 24)
    /\ cs[4] = ":"
    /\ TwoDigits(SubSeq(cs, 5, 6), 60)

\* HH, HH:MM or HH:MM:SS
IsoClock(cs) ==
    \/ TwoDigits(cs, 24)
    \/ Len(cs) = 5 /\ TwoDigits(SubSeq(cs, 1, 2), 24) /\ cs[3] = ":"
                   /\ TwoDigits(SubSeq(cs, 4, 5), 60)
    \/ Len(cs) = 8 /\ TwoDigits(SubSeq(cs, 1, 2), 24) /\ cs[3] = ":"
                   /\ TwoDigits(SubSeq(cs, 4, 5), 60) /\ cs[6] = ":"
                   /\ TwoDigits(SubSeq(cs, 7, 8), 60)

\* the time part of an ISO string: a clock, optionally followed by an offset
IsoTime(cs) ==
    \/ IsoClock(cs)
    \/ Len(cs) > 6 /\ IsoClock(SubSeq(cs, 1, Len(cs) - 6))
                   /\ IsoOffset(SubSeq(cs, Len(cs) - 5, Len(cs)))

\* FromIsoFormat with a plausible slip: only a date is accepted, as
\* date.fromisoformat does
FromIsoFormat_SoloFecha(cs) ==
    IF Len(cs) # 10 THEN NoDate
    ELSE LET y == NatVal(SubSeq(cs, 1, 4))
             m == NatVal(SubSeq(cs, 6, 7))
             d == NatVal(SubSeq(cs, 9, 10))
             shape == /\ AllDigits(SubSeq(cs, 1, 4)) /\ cs[5] = "-"
                      /\ AllDigits(SubSeq(cs, 6, 7)) /\ cs[8] = "-"
                      /\ AllDigits(SubSeq(cs, 9, 10))
         IN  IF ~shape THEN NoDate
             ELSE IF y < MINYEAR \/ m < 1 \/ m > 12 \/ d < 1 \/ d > DaysInMonth(y, m)
             THEN NoDate
             ELSE [ok |-> TRUE, year |-> y, month |-> m]

\* datetime.fromisoformat(s): YYYY-MM-DD, then optionally one separator
\* character and a time.  (The forms every supported Python accepts.)
FromIsoFormat(cs) ==
    IF Len(cs) < 10 THEN NoDate
    ELSE LET y == NatVal(SubSeq(cs, 1, 4))
             m == NatVal(SubSeq(cs, 6, 7))
             d == NatVal(SubSeq(cs, 9, 10))
             shape == /\ AllDigits(SubSeq(cs, 1, 4)) /\ cs[5] = "-"
                      /\ AllDigits(SubSeq(cs, 6, 7)) /\ cs[8] = "-"
                      /\ AllDigits(SubSeq(cs, 9, 10))
         IN  IF ~shape THEN NoDate
             ELSE IF y < MINYEAR \/ m < 1 \/ m > 12 \/ d < 1 \/ d > DaysInMonth(y, m)
             THEN NoDate
             ELSE IF Len(cs) = 10 THEN [ok |-> TRUE, year |-> y, month |-> m]
             ELSE IF Len(cs) >= 13 /\ IsoTime(SubSeq(cs, 12, Len(cs)))
             THEN [ok |-> TRUE, year |-> y, month |-> m]
             ELSE NoDate

(***************************************************************************)
(* fecha_portada                                                           *)
(***************************************************************************)
MESES_ES ==
    <<"Enero", "Febrero", "Marzo", "Abril", "Mayo", "Junio", "Julio",
      "Agosto", "Septiembre", "Octubre", "Noviembre", "Diciembre">>

\* a text the program produced, as the pieces it was put together from
Texto(pieces) == [t |-> "texto", i |-> 0, s |-> pieces]

FechaNoValida == Texto(<<"Fecha no válida">>)

\* f"{MESES_ES.get(dt.month, 'Mes')} {dt.year}"
formatea_mes_anio_es(year, month) ==
    Texto(<<IF month \in 1..12 THEN MESES_ES[month] ELSE "Mes", " ", ToString(year)>>)

\* NormalizaFecha with a plausible slip: no "if fecha_iso:" test, so that the
\* numbers 0, 0.0 and False are read as Excel serial dates
NormalizaFecha_SinFalsy(fecha_iso) ==
    IF fecha_iso.t = "str"
    THEN LET ym  == StrptimeYm(fecha_iso.s)
             iso == FromIsoFormat(ReplaceZ(fecha_iso.s))
             dt  == IF ym.ok THEN ym ELSE iso
         IN  IF dt.ok THEN formatea_mes_anio_es(dt.year, dt.month) ELSE FechaNoValida
    ELSE IF fecha_iso.t \in {"int", "bool", "float"}
    THEN LET days == IF fecha_iso.t = "float" THEN fecha_iso.i \div 10
                     ELSE fecha_iso.i
             dt   == ExcelSerialDate(days)
         IN  IF dt.raises THEN FechaNoValida
             ELSE formatea_mes_anio_es(dt.year, dt.month)
    ELSE FechaNoValida

\* the block "Convertir la fecha_portada": the new value of main["fecha_portada"]
NormalizaFecha(fecha_iso) ==
    IF ~Truthy(fecha_iso) THEN FechaNoValida
    ELSE IF fecha_iso.t = "str"
    THEN LET ym  == StrptimeYm(fecha_iso.s)
             iso == FromIsoFormat(ReplaceZ(fecha_iso.s))
             dt  == IF ym.ok THEN ym ELSE iso
         IN  IF dt.ok THEN formatea_mes_anio_es(dt.year, dt.month) ELSE FechaNoValida
    ELSE IF fecha_iso.t \in {"int", "bool", "float", "nan", "inf"}
    THEN IF fecha_iso.t \in {"nan", "inf"} THEN FechaNoValida
         ELSE LET days == IF fecha_iso.t = "float" THEN fecha_iso.i \div 10
                          ELSE fecha_iso.i
                  dt   == ExcelSerialDate(days)
              IN  IF dt.raises THEN FechaNoValida
                  ELSE formatea_mes_anio_es(dt.year, dt.month)
    ELSE FechaNoValida

(***************************************************************************)
(* build_slide / build_slide_structure                                     *)
(***************************************************************************)
slide_info ==
    { <<"r", "e", "s", "u", "m", "e", "n">>,
      <<"s", "u", "g", "e", "r", "e", "n", "c", "i", "a">>,
      <<"s", "u", "g", "e", "r", "e", "n", "c", "i", "a", "_",
        "v", "e", "r", "s", "i", "o", "n">> }

sugerencia_version ==
    <<"s", "u", "g", "e", "r", "e", "n", "c", "i", "a", "_",
      "v", "e", "r", "s", "i", "o", "n">>

\* the "labels" list of a chart: the command-line script and the service
\* spell the second label differently
WeekLabels(impl) ==
    IF impl = "cli" THEN <<"Semana 1", "Semana2", "Semana 3", "Semana 4">>
                    ELSE <<"Semana 1", "Semana 2", "Semana 3", "Semana 4">>

\* values of the entries of a chart dict
CText(txt)  == [txt |-> txt, labels |-> <<>>, vals |-> <<>>]
CLabels(ls) == [txt |-> "",  labels |-> ls,   vals |-> <<>>]
CSerie(vs)  == [txt |-> "",  labels |-> <<>>, vals |-> vs]

\* product_name.upper().split(".")[0]
Titulo(name) ==
    LET up  == Upper(name)
        dot == IndexOf(up, ".")
    IN  IF dot = 0 THEN up ELSE SubSeq(up, 1, dot - 1)

\* build = {"titulo": ..., "kpis": "", "charts": {}}; textos holds the keys
\* of slide_info that build[semana_key] = ... adds
NewBuild(name) ==
    [titulo |-> Titulo(name), kpis |-> <<>>, charts |-> <<>>, textos |-> <<>>]

\* chart_data = {chart_name: {serie: [] for serie in series} ...}
NewChartData(chart_definitions) ==
    [c \in 1..Len(chart_definitions) |->
        Entry(chart_definitions[c].k,
              [n \in 1..Len(chart_definitions[c].v) |->
                  Entry(chart_definitions[c].v[n].k, <<>>)])]

\* all_series = {serie: json_key for series in ... for serie, json_key in ...}
RECURSIVE FlattenSeries(_, _)
FlattenSeries(chart_definitions, acc) ==
    IF chart_definitions = <<>> THEN acc
    ELSE LET series == Head(chart_definitions).v
             AddAll[n \in 0..Len(series)] ==
                 IF n = 0 THEN acc
                 ELSE DictSet(AddAll[n - 1], series[n].k, series[n].v)
         IN  FlattenSeries(Tail(chart_definitions), AddAll[Len(series)])

AllSeries(chart_definitions) == FlattenSeries(chart_definitions, <<>>)

\* AppendWeek with a plausible slip: a series gets a value only when the
\* record has its column
AppendWeek_SoloPresentes(semana, chart_definitions, chart_data) ==
    LET Val(c, n) == CoerceInt(DictGet(semana, chart_definitions[c].v[n].v, VInt(0)))
    IN  [raises |-> \E c \in 1..Len(chart_definitions) :
                        \E n \in 1..Len(chart_definitions[c].v) : Val(c, n).raises,
         chart_data |->
            [c \in 1..Len(chart_data) |->
                Entry(chart_data[c].k,
                      [n \in 1..Len(chart_data[c].v) |->
                          Entry(chart_data[c].v[n].k,
                                IF DictHas(semana, chart_definitions[c].v[n].v)
                                THEN Append(chart_data[c].v[n].v, Val(c, n).val)
                                ELSE chart_data[c].v[n].v)])]]

\* the else branch of the loop body: one value appended to every series.
\* [raises] when a value makes int(float(val)) raise an error other than
\* ValueError / TypeError.
AppendWeek(semana, chart_definitions, chart_data) ==
    LET Val(c, n) == CoerceInt(DictGet(semana, chart_definitions[c].v[n].v, VInt(0)))
    IN  [raises |-> \E c \in 1..Len(chart_definitions) :
                        \E n \in 1..Len(chart_definitions[c].v) : Val(c, n).raises,
         chart_data |->
            [c \in 1..Len(chart_data) |->
                Entry(chart_data[c].k,
                      [n \in 1..Len(chart_data[c].v) |->
                          Entry(chart_data[c].v[n].k,
                                Append(chart_data[c].v[n].v, Val(c, n).val))])]]

\* ProcesaSemana with a plausible slip: the text "null" is kept as it is
ProcesaSemana_SinNull(semana, chart_definitions, pointer_resume, chart_data, build) ==
    LET raw == DictGet(semana, "Semana", VStr(<<>>))
    IN  IF raw.t # "str"
        THEN [raises |-> TRUE, exc |-> "AttributeError", stop |-> FALSE,
              chart_data |-> chart_data, build |-> build]
        ELSE LET semana_key == Strip(raw.s)
             IN  IF semana_key \in slide_info
                 THEN LET valor == DictGet(semana, pointer_resume, VStr(<<>>))
                      IN  [raises |-> FALSE, exc |-> "none",
                           stop |-> semana_key = sugerencia_version,
                           chart_data |-> chart_data,
                           build |-> [build EXCEPT !.textos =
                                         DictSet(build.textos, semana_key, valor)]]
                 ELSE LET a == AppendWeek(semana, chart_definitions, chart_data)
                      IN  [raises |-> a.raises,
                           exc |-> IF a.raises THEN "OverflowError" ELSE "none",
                           stop |-> FALSE,
                           chart_data |-> a.chart_data, build |-> build]

\* one iteration of "for semana in product"
\*   raises : the iteration raised exc (AttributeError of .strip() on a value
\*            that is not a str, OverflowError of int(inf))
\*   stop   : the iteration ended in break
ProcesaSemana(semana, chart_definitions, pointer_resume, chart_data, build) ==
    LET raw == DictGet(semana, "Semana", VStr(<<>>))
    IN  IF raw.t # "str"
        THEN [raises |-> TRUE, exc |-> "AttributeError", stop |-> FALSE,
              chart_data |-> chart_data, build |-> build]
        ELSE LET semana_key == Strip(raw.s)
             IN  IF semana_key \in slide_info
                 THEN LET valor == DictGet(semana, pointer_resume, VStr(<<>>))
                          texto == IF valor = VStr(<<"n", "u", "l", "l">>)
                                   THEN VStr(<<>>) ELSE valor
                      IN  [raises |-> FALSE, exc |-> "none",
                           stop |-> semana_key = sugerencia_version,
                           chart_data |-> chart_data,
                           build |-> [build EXCEPT !.textos =
                                         DictSet(build.textos, semana_key, texto)]]
                 ELSE LET a == AppendWeek(semana, chart_definitions, chart_data)
                      IN  [raises |-> a.raises,
                           exc |-> IF a.raises THEN "OverflowError" ELSE "none",
                           stop |-> FALSE,
                           chart_data |-> a.chart_data, build |-> build]

\* chart(values, name, build, kpis) / chart_builder: [build, kpis] afterwards
RECURSIVE KpiCounts(_, _)
KpiCounts(values, kpis) ==
    IF values = <<>> THEN kpis
    ELSE LET count == SumSeq(Head(values).v)
         IN  KpiCounts(Tail(values),
                       IF count > 0 THEN DictSet(kpis, Head(values).k, count) ELSE kpis)

ChartTotal(values) == SumSeq([n \in 1..Len(values) |-> SumSeq(values[n].v)])

\* {"type": "bar", "labels": [...], **values}
ChartDict(values, impl) ==
    LET base == <<Entry("type", CText("bar")), Entry("labels", CLabels(WeekLabels(impl)))>>
        Merge[n \in 0..Len(values)] ==
            IF n = 0 THEN base
            ELSE DictSet(Merge[n - 1], values[n].k, CSerie(values[n].v))
    IN  Merge[Len(values)]

\* chart with a plausible slip: the threshold of the chart is >= 0
chart_SinUmbral(values, name, build, kpis, impl) ==
    [kpis  |-> KpiCounts(values, kpis),
     build |-> IF ChartTotal(values) >= 0
               THEN [build EXCEPT !.charts = DictSet(build.charts, name, ChartDict(values, impl))]
               ELSE build]

chart(values, name, build, kpis, impl) ==
    [kpis  |-> KpiCounts(values, kpis),
     build |-> IF ChartTotal(values) > 0
               THEN [build EXCEPT !.charts = DictSet(build.charts, name, ChartDict(values, impl))]
               ELSE build]

\* steps 4 and 5 of build_slide: charts and KPI text from the collected data
RECURSIVE ChartsAndKpis(_, _, _, _)
ChartsAndKpis(chart_data, build, kpis, impl) ==
    IF chart_data = <<>> THEN [build |-> build, kpis |-> kpis]
    ELSE LET r == chart(Head(chart_data).v, Head(chart_data).k, build, kpis, impl)
         IN  ChartsAndKpis(Tail(chart_data), r.build, r.kpis, impl)

\* build["kpis"] += f"{nombre_amigable}: {total}\n", one line per entry of kpis
KpiLine(nombre, total) == [nombre |-> nombre, total |-> total]

KpisText(kpis, all_series) ==
    [n \in 1..Len(kpis) |-> KpiLine(DictGet(all_series, kpis[n].k, kpis[n].k), kpis[n].v)]

FinishSlide(chart_definitions, chart_data, build, impl) ==
    LET r == ChartsAndKpis(chart_data, build, <<>>, impl)
    IN  [r.build EXCEPT !.kpis = KpisText(r.kpis, AllSeries(chart_definitions))]

(***************************************************************************)
(* Inputs of build-structure                                               *)
(***************************************************************************)
uas         == <<"u", "a", "s">>
wazuh       == <<"w", "a", "z", "u", "h">>
ardid       == <<"a", "r", "d", "i", "d">>
invgate_asj == <<"i", "n", "v", "g", "a", "t", "e", ".", "a", "s", "j">>
invgate     == <<"i", "n", "v", "g", "a", "t", "e">>
beyondtrust == <<"b", "e", "y", "o", "n", "d", "t", "r", "u", "s", "t">>
whalemate   == <<"w", "h", "a", "l", "e", "m", "a", "t", "e">>
otro        == <<"o", "t", "r", "o">>

\* file_slide / file_slide_map
file_slide_map ==
    << Entry(VStr(uas),         "plantilla_contenido.pptx"),
       Entry(VStr(wazuh),       "plantilla_contenido_no_kpis.pptx"),
       Entry(VStr(ardid),       "plantilla_contenido.pptx"),
       Entry(VStr(invgate_asj), "plantilla_contenido_no_kpis.pptx"),
       Entry(VStr(invgate),     "plantilla_contenido.pptx"),
       Entry(VStr(beyondtrust), "plantilla_contenido.pptx"),
       Entry(VStr(whalemate),   "plantilla_contenido.pptx") >>

DefaultTemplate == "plantilla_contenido.pptx"

\* weekly records: "Semana", the text column, the metric columns, and
\* "product" on the records that open a product
RecUas ==
    << Entry("Semana", VStr(<<"1">>)), Entry("detalle", VStr(<<>>)),
       Entry("colA", VInt(2)), Entry("colB", VInt(0)), Entry("product", VStr(uas)) >>
RecSigue ==
    << Entry("Semana", VStr(<<"2">>)), Entry("detalle", VStr(<<>>)),
       Entry("colA", VStr(<<"3", ".", "7">>)), Entry("colB", VInt(-1)) >>
RecWazuh ==
    << Entry("Semana", VStr(<<"1">>)), Entry("detalle", VStr(<<>>)),
       Entry("colA", VInt(0)), Entry("colB", VNull), Entry("product", VStr(wazuh)) >>
RecResumen ==
    << Entry("Semana", VStr(<<" ", "r", "e", "s", "u", "m", "e", "n", " ">>)),
       Entry("detalle", VStr(<<"o", "k">>)) >>
RecVersion ==
    << Entry("Semana", VStr(sugerencia_version)),
       Entry("detalle", VStr(<<"n", "u", "l", "l">>)), Entry("colA", VInt(9)) >>
RecOtro ==
    << Entry("product", VStr(otro)), Entry("Semana", VStr(<<"1">>)),
       Entry("colA", VInt(5)) >>
RecCorto ==
    << Entry("product", VStr(uas)) >>

RecordSamples == {RecUas, RecSigue, RecWazuh, RecResumen, RecVersion, RecOtro, RecCorto}

\* the longest "products" list of a request
MaxRecords == 3

RECURSIVE SeqsUpTo(_, _)
SeqsUpTo(S, n) ==
    IF n = 0 THEN {<<>>}
    ELSE LET shorter == SeqsUpTo(S, n - 1)
         IN  shorter \cup {Append(q, x) : q \in {r \in shorter : Len(r) = n - 1}, x \in S}

\* /data/charts: product key -> contents of chart_<key>.json
\* (chart name -> series name -> column of the weekly records)
ChartsDirA ==
    << Entry(VStr(uas),
             << Entry("incidentes", << Entry("criticos", "colA"), Entry("altos", "colB") >>),
                Entry("tickets",    << Entry("abiertos", "colB") >>) >>),
       Entry(VStr(wazuh),
             << Entry("alertas", << Entry("alertas_total", "colA") >>) >>) >>
ChartsDirB ==
    << Entry(VStr(uas),
             << Entry("incidentes", << Entry("total", "colA") >>),
                Entry("tickets",    << Entry("total", "colB") >>) >>),
       Entry(VStr(otro),
             << Entry("otros", << Entry("cantidad", "colA") >>) >>) >>

ChartsDirSamples == {ChartsDirA, ChartsDirB}

\* keys of a chart dict that are not series (create_matplotlib_chart skips them)
ReservedChartKeys == {"labels", "type", "title", "titulo"}

\* a descriptor the request already carries in main["slides"]
SlideRecibido ==
    [type |-> VStr(ardid), slide |-> NewBuild(ardid), file_slide |-> DefaultTemplate]

\* main: "slides" may be missing from the object
MainSamples(fechas) ==
    { [fecha_portada |-> f, has_slides |-> h.has, slides |-> h.slides] :
        f \in fechas,
        h \in { [has |-> FALSE, slides |-> <<>>],
                [has |-> TRUE,  slides |-> <<>>],
                [has |-> TRUE,  slides |-> <<SlideRecibido>>] } }

(***************************************************************************)
(* State                                                                   *)
(***************************************************************************)
VARIABLES
    impl,            \* "cli": build_structure.py / generate_pdf.py, "http": app.py
    request,         \* the request as received: [main, products]
    charts_dir,      \* the chart-definition files under /data/charts
    main,            \* data["main"], modified in place
    pc,              \* position in build-structure
    i,               \* index of the next record of the grouping loop
    actual_product,  \* actual_product
    parse_products,  \* parse_products: key -> records
    j,               \* index of the next bucket of the slide loop
    w,               \* index of the next record inside build_slide
    chart_defs,      \* chart_definitions of the bucket being built
    chart_data,      \* chart_data of the bucket being built
    build,           \* build of the bucket being built
    result,          \* "none", "ok", "exception" (cli) or "http500" (http)
    error,           \* the exception that ended the run, "none" otherwise
    runs,            \* the generate runs in progress
    gdata,           \* gdata[r]: the "data" object of run r, and its implementation
    fs,              \* the files under /data: path -> pages
    run              \* run[r]: the local variables of run r

bvars == <<impl, request, charts_dir, main, pc, i, actual_product, parse_products,
           j, w, chart_defs, chart_data, build, result, error>>

gvars == <<runs, gdata, fs, run>>

vars == <<impl, request, charts_dir, main, pc, i, actual_product, parse_products,
          j, w, chart_defs, chart_data, build, result, error,
          runs, gdata, fs, run>>

NoBuild == NewBuild(<<>>)

BuildInit(fechas, productLists) ==
    /\ impl \in {"cli", "http"}
    /\ charts_dir \in ChartsDirSamples
    /\ \E m \in MainSamples(fechas), ps \in productLists :
          /\ request = [main |-> m, products |-> ps]
          /\ main = m
    /\ pc = "fecha"
    /\ i = 1
    /\ actual_product = VStr(<<>>)
    /\ parse_products = <<>>
    /\ j = 1
    /\ w = 1
    /\ chart_defs = <<>>
    /\ chart_data = <<>>
    /\ build = NoBuild
    /\ result = "none"
    /\ error = "none"

\* an exception leaves the handler: the script dies with a traceback and
\* prints nothing, the service answers with HTTPException(500)
Raise(exc) ==
    /\ pc' = "failed"
    /\ error' = exc
    /\ result' = IF impl = "cli" THEN "exception" ELSE "http500"

(***************************************************************************)
(* build-structure, step by step                                           *)
(***************************************************************************)
\* "Convertir la fecha_portada"
NormalizarFecha ==
    /\ pc = "fecha"
    /\ main' = [main EXCEPT !.fecha_portada = NormalizaFecha(main.fecha_portada)]
    /\ pc' = "agrupar"
    /\ UNCHANGED <<impl, request, charts_dir, i, actual_product, parse_products,
                   j, w, chart_defs, chart_data, build, result, error>>
    /\ UNCHANGED gvars

\* Agrupar with a plausible slip: the default of product.get is "" instead of
\* the product carried over from the previous record
Agrupar_SinArrastre ==
    /\ pc = "agrupar"
    /\ i <= Len(request.products)
    /\ LET product == request.products[i]
           key     == DictGet(product, "product", VStr(<<>>))
       IN  /\ actual_product' = key
           /\ parse_products' =
                 DictSet(parse_products, key,
                         Append(DictGet(parse_products, key, <<>>), product))
    /\ i' = i + 1
    /\ UNCHANGED <<impl, request, charts_dir, main, pc, j, w, chart_defs,
                   chart_data, build, result, error>>
    /\ UNCHANGED gvars

\* one iteration of "for product in products"
Agrupar ==
    /\ pc = "agrupar"
    /\ i <= Len(request.products)
    /\ LET product == request.products[i]
           key     == DictGet(product, "product", actual_product)
       IN  /\ actual_product' = key
           /\ parse_products' =
                 DictSet(parse_products, key,
                         Append(DictGet(parse_products, key, <<>>), product))
    /\ i' = i + 1
    /\ UNCHANGED <<impl, request, charts_dir, main, pc, j, w, chart_defs,
                   chart_data, build, result, error>>
    /\ UNCHANGED gvars

\* the grouping loop is over; the service creates a missing "slides" list
FinAgrupar ==
    /\ pc = "agrupar"
    /\ i > Len(request.products)
    /\ main' = IF impl = "http" /\ ~main.has_slides
               THEN [main EXCEPT !.has_slides = TRUE, !.slides = <<>>]
               ELSE main
    /\ pc' = "slides"
    /\ UNCHANGED <<impl, request, charts_dir, i, actual_product, parse_products,
                   j, w, chart_defs, chart_data, build, result, error>>
    /\ UNCHANGED gvars

\* list(parse_products[product][0].keys())[1]
PointerResumen(records) == DictKeys(records[1])[2]

\* AbrirProducto with a plausible slip: the service opens the chart file
\* without its try / except FileNotFoundError
AbrirProducto_SinTry ==
    /\ pc = "slides"
    /\ j <= Len(parse_products)
    /\ LET key     == parse_products[j].k
           records == parse_products[j].v
       IN  IF Len(records[1]) < 2
           THEN Raise("IndexError")
                /\ UNCHANGED <<w, chart_defs, chart_data, build>>
           ELSE IF ~DictHas(charts_dir, key)
           THEN Raise("FileNotFoundError")
                /\ UNCHANGED <<w, chart_defs, chart_data, build>>
           ELSE IF key.t # "str"
           THEN Raise("AttributeError")
                /\ UNCHANGED <<w, chart_defs, chart_data, build>>
           ELSE /\ chart_defs' = DictGet(charts_dir, key, <<>>)
                /\ chart_data' = NewChartData(DictGet(charts_dir, key, <<>>))
                /\ build' = NewBuild(key.s)
                /\ w' = 1
                /\ pc' = "semanas"
                /\ UNCHANGED <<result, error>>
    /\ UNCHANGED <<impl, request, charts_dir, main, i, actual_product,
                   parse_products, j>>
    /\ UNCHANGED gvars

\* start of one iteration of the slide loop: pointer column, chart file,
\* and the initialisation of build_slide
AbrirProducto ==
    /\ pc = "slides"
    /\ j <= Len(parse_products)
    /\ LET key     == parse_products[j].k
           records == parse_products[j].v
       IN  IF Len(records[1]) < 2
           THEN Raise("IndexError")
                /\ UNCHANGED <<w, chart_defs, chart_data, build>>
           ELSE IF impl = "cli" /\ ~DictHas(charts_dir, key)
           THEN Raise("FileNotFoundError")
                /\ UNCHANGED <<w, chart_defs, chart_data, build>>
           ELSE IF key.t # "str"
           THEN Raise("AttributeError")
                /\ UNCHANGED <<w, chart_defs, chart_data, build>>
           ELSE /\ chart_defs' = DictGet(charts_dir, key, <<>>)
                /\ chart_data' = NewChartData(DictGet(charts_dir, key, <<>>))
                /\ build' = NewBuild(key.s)
                /\ w' = 1
                /\ pc' = "semanas"
                /\ UNCHANGED <<result, error>>
    /\ UNCHANGED <<impl, request, charts_dir, main, i, actual_product,
                   parse_products, j>>
    /\ UNCHANGED gvars

\* ProcesarSemana with a plausible slip: the loop does not break at the
\* "sugerencia_version" row
ProcesarSemana_SinBreak ==
    /\ pc = "semanas"
    /\ LET records == parse_products[j].v
           r == ProcesaSemana(records[w], chart_defs, PointerResumen(records),
                              chart_data, build)
       IN  IF r.raises
           THEN Raise(r.exc)
                /\ UNCHANGED <<w, chart_data, build>>
           ELSE /\ chart_data' = r.chart_data
                /\ build' = r.build
                /\ w' = w + 1
                /\ pc' = IF w = Len(records) THEN "descriptor" ELSE "semanas"
                /\ UNCHANGED <<result, error>>
    /\ UNCHANGED <<impl, request, charts_dir, main, i, actual_product,
                   parse_products, j, chart_defs>>
    /\ UNCHANGED gvars

\* one iteration of "for semana in product" inside build_slide
ProcesarSemana ==
    /\ pc = "semanas"
    /\ LET records == parse_products[j].v
           r == ProcesaSemana(records[w], chart_defs, PointerResumen(records),
                              chart_data, build)
       IN  IF r.raises
           THEN Raise(r.exc)
                /\ UNCHANGED <<w, chart_data, build>>
           ELSE /\ chart_data' = r.chart_data
                /\ build' = r.build
                /\ w' = w + 1
                /\ pc' = IF r.stop \/ w = Len(records) THEN "descriptor" ELSE "semanas"
                /\ UNCHANGED <<result, error>>
    /\ UNCHANGED <<impl, request, charts_dir, main, i, actual_product,
                   parse_products, j, chart_defs>>
    /\ UNCHANGED gvars

\* the descriptor of the bucket
Descriptor(key, slide_data, template) ==
    [type |-> key, slide |-> slide_data, file_slide |-> template]

\* AgregarSlide with a plausible slip: the script looks the template up with
\* a default, as the service does
AgregarSlide_ConDefault ==
    /\ pc = "descriptor"
    /\ LET key        == parse_products[j].k
           slide_data == FinishSlide(chart_defs, chart_data, build, impl)
       IN  IF impl = "cli" /\ ~main.has_slides
           THEN Raise("KeyError") /\ UNCHANGED <<main, j, build>>
           ELSE /\ main' = [main EXCEPT !.slides =
                               Append(@, Descriptor(key, slide_data,
                                         DictGet(file_slide_map, key, DefaultTemplate)))]
                /\ build' = slide_data
                /\ j' = j + 1
                /\ pc' = "slides"
                /\ UNCHANGED <<result, error>>
    /\ UNCHANGED <<impl, request, charts_dir, i, actual_product, parse_products,
                   w, chart_defs, chart_data>>
    /\ UNCHANGED gvars

\* AgregarSlide with a plausible slip: a slide without charts counts as empty
\* and gets no descriptor
AgregarSlide_SoloConCharts ==
    /\ pc = "descriptor"
    /\ LET key        == parse_products[j].k
           slide_data == FinishSlide(chart_defs, chart_data, build, impl)
       IN  IF impl = "cli" /\ ~main.has_slides
           THEN Raise("KeyError") /\ UNCHANGED <<main, j, build>>
           ELSE IF impl = "cli" /\ ~DictHas(file_slide_map, key)
           THEN Raise("KeyError") /\ UNCHANGED <<main, j, build>>
           ELSE /\ main' = IF slide_data.charts = <<>> THEN main
                           ELSE [main EXCEPT !.slides =
                               Append(@, Descriptor(key, slide_data,
                                         DictGet(file_slide_map, key, DefaultTemplate)))]
                /\ build' = slide_data
                /\ j' = j + 1
                /\ pc' = "slides"
                /\ UNCHANGED <<result, error>>
    /\ UNCHANGED <<impl, request, charts_dir, i, actual_product, parse_products,
                   w, chart_defs, chart_data>>
    /\ UNCHANGED gvars

\* rest of the iteration: charts, KPI text, and the append to main["slides"]
AgregarSlide ==
    /\ pc = "descriptor"
    /\ LET key        == parse_products[j].k
           slide_data == FinishSlide(chart_defs, chart_data, build, impl)
       IN  IF impl = "cli" /\ ~main.has_slides
           THEN Raise("KeyError") /\ UNCHANGED <<main, j, build>>
           ELSE IF impl = "cli" /\ ~DictHas(file_slide_map, key)
           THEN Raise("KeyError") /\ UNCHANGED <<main, j, build>>
           ELSE /\ main' = [main EXCEPT !.slides =
                               Append(@, Descriptor(key, slide_data,
                                         DictGet(file_slide_map, key, DefaultTemplate)))]
                /\ build' = slide_data
                /\ j' = j + 1
                /\ pc' = "slides"
                /\ UNCHANGED <<result, error>>
    /\ UNCHANGED <<impl, request, charts_dir, i, actual_product, parse_products,
                   w, chart_defs, chart_data>>
    /\ UNCHANGED gvars

\* print(json.dumps({"status": "ok", ...})) / return {"status": "ok", ...}
Terminar ==
    /\ pc = "slides"
    /\ j > Len(parse_products)
    /\ result' = "ok"
    /\ pc' = "done"
    /\ UNCHANGED <<impl, request, charts_dir, main, i, actual_product,
                   parse_products, j, w, chart_defs, chart_data, build, error>>
    /\ UNCHANGED gvars

Next ==
    \/ NormalizarFecha
    \/ Agrupar
    \/ FinAgrupar
    \/ AbrirProducto
    \/ ProcesarSemana
    \/ AgregarSlide
    \/ Terminar

(***************************************************************************)
(* generate: files                                                         *)
(***************************************************************************)
\* a path below /data: directory and file name; the name is the sequence of
\* its fixed pieces and of the characters of the variable parts
Path(dir, file) == [dir |-> dir, file |-> file]
NoPath == Path("", <<>>)

\* one page of a deck or PDF: which run made it, from which slide
Page(fmt, kind, r, slide) == [fmt |-> fmt, kind |-> kind, run |-> r, slide |-> slide]

LowerChar(c) ==
    CASE c = "A" -> "a" [] c = "B" -> "b" [] c = "C" -> "c" [] c = "E" -> "e"
      [] c = "M" -> "m" [] c = "P" -> "p" [] c = "N" -> "n" [] c = "G" -> "g"
      [] OTHER -> c

Lower(cs) == [n \in 1..Len(cs) |-> LowerChar(cs[n])]

\* data.get("logo")[:-4].lower() if data.get("logo") else ""
Empresa(logo) ==
    IF ~Truthy(logo) THEN <<>>
    ELSE Lower(SubSeq(logo.s, 1, Len(logo.s) - 4))

PortadaPptx == Path("pptx-parts", <<"portada", ".pptx">>)
CierrePptx  == Path("pptx-parts", <<"cierre", ".pptx">>)

\* f"{DATA_DIR}/pptx-parts/contenido_{product_type}.pptx"
ContenidoPptx(product_type) ==
    Path("pptx-parts", <<"contenido_">> \o product_type \o <<".pptx">>)

\* convert_to_pdf: the path of the PDF, basename with .pptx replaced by .pdf
PdfPath(pptx_file) ==
    Path("pdf-parts",
         [n \in 1..Len(pptx_file.file) |->
             IF pptx_file.file[n] = ".pptx" THEN ".pdf" ELSE pptx_file.file[n]])

\* the PDF LibreOffice writes for a deck
ToPdf(pages) == [n \in 1..Len(pages) |-> [pages[n] EXCEPT !.fmt = "pdf"]]

\* split == 0 / split == 1 for a JSON value (None compares unequal)
SplitEquals(split, n) == split.t \in {"int", "float", "bool"} /\ split.i = n

\* unir_pdfs: f"{output_dir}/informe_{empresa}{'.' + type if split == 1 else ''}.pdf"
InformePath(empresa, type, split) ==
    Path("generados",
         <<"informe_">> \o empresa
            \o (IF SplitEquals(split, 1) THEN <<".">> \o type ELSE <<>>)
            \o <<".pdf">>)

\* unir_pdfs: the pages of all the PDFs, in the order of pdf_paths
RECURSIVE MergePages(_, _)
MergePages(pdf_paths, files) ==
    IF pdf_paths = <<>> THEN <<>>
    ELSE files[Head(pdf_paths)] \o MergePages(Tail(pdf_paths), files)

WriteFile(files, path, pages) ==
    [p \in DOMAIN files \cup {path} |-> IF p = path THEN pages ELSE files[p]]

(***************************************************************************)
(* get_logo_from_base64                                                    *)
(***************************************************************************)
\* the Base64 alphabet, value 0 first
B64Alphabet ==
    <<"A", "B", "C", "D", "E", "F", "G", "H", "I", "J", "K", "L", "M", "N", "O", "P",
      "Q", "R", "S", "T", "U", "V", "W", "X", "Y", "Z",
      "a", "b", "c", "d", "e", "f", "g", "h", "i", "j", "k", "l", "m", "n", "o", "p",
      "q", "r", "s", "t", "u", "v", "w", "x", "y", "z",
      "0", "1", "2", "3", "4", "5", "6", "7", "8", "9", "+", "/">>

\* table_a2b_base64: the value of a character, 64 when it is not in the alphabet
B64Value(c) ==
    IF \E n \in 1..64 : B64Alphabet[n] = c
    THEN (CHOOSE n \in 1..64 : B64Alphabet[n] = c) - 1
    ELSE 64

\* characters of the sample strings that are not ASCII
NonAscii == {"ñ"}

\* binascii.a2b_base64 without strict mode, from character k on: characters
\* outside the alphabet are skipped, enough padding after two or three
\* characters of a quad ends the decoding, an unfinished quad at the end of
\* the string is binascii.Error
RECURSIVE A2bBase64(_, _, _, _, _, _)
A2bBase64(cs, k, quad_pos, pads, leftchar, out) ==
    IF k > Len(cs)
    THEN [raises |-> quad_pos # 0, bytes |-> out]
    ELSE IF cs[k] = "="
    THEN IF quad_pos >= 2 /\ quad_pos + pads + 1 >= 4
         THEN [raises |-> FALSE, bytes |-> out]
         ELSE A2bBase64(cs, k + 1, quad_pos,
                        IF quad_pos >= 2 THEN pads + 1 ELSE pads, leftchar, out)
    ELSE LET this_ch == B64Value(cs[k])
         IN  IF this_ch >= 64
             THEN A2bBase64(cs, k + 1, quad_pos, pads, leftchar, out)
             ELSE CASE quad_pos = 0 ->
                         A2bBase64(cs, k + 1, 1, 0, this_ch, out)
                    [] quad_pos = 1 ->
                         A2bBase64(cs, k + 1, 2, 0, this_ch % 16,
                                   Append(out, leftchar * 4 + this_ch \div 16))
                    [] quad_pos = 2 ->
                         A2bBase64(cs, k + 1, 3, 0, this_ch % 4,
                                   Append(out, leftchar * 16 + this_ch \div 4))
                    [] quad_pos = 3 ->
                         A2bBase64(cs, k + 1, 0, 0, 0,
                                   Append(out, leftchar * 64 + this_ch))

\* base64.b64decode(s) of a str: [raises, exc, bytes]
B64Decode(cs) ==
    IF \E n \in 1..Len(cs) : cs[n] \in NonAscii
    THEN [raises |-> TRUE, exc |-> "ValueError", bytes |-> <<>>]
    ELSE LET r == A2bBase64(cs, 1, 0, 0, 0, <<>>)
         IN  [raises |-> r.raises,
              exc |-> IF r.raises THEN "binascii.Error" ELSE "none",
              bytes |-> IF r.raises THEN <<>> ELSE r.bytes]

\* None / BytesIO(image_data)
NoStream == [none |-> TRUE, bytes |-> <<>>]
BytesIO(image_data) == [none |-> FALSE, bytes |-> image_data]

\* get_logo_from_base64(base64_string): [raises, exc, stream]; the scripts
\* catch binascii.Error, the service catches Exception
get_logo_from_base64(base64_string, im) ==
    IF ~Truthy(base64_string)
    THEN [raises |-> FALSE, exc |-> "none", stream |-> NoStream]
    ELSE LET d == B64Decode(base64_string.s)
         IN  IF ~d.raises
             THEN [raises |-> FALSE, exc |-> "none", stream |-> BytesIO(d.bytes)]
             ELSE IF im = "http" \/ d.exc = "binascii.Error"
             THEN [raises |-> FALSE, exc |-> "none", stream |-> NoStream]
             ELSE [raises |-> TRUE, exc |-> d.exc, stream |-> NoStream]

(***************************************************************************)
(* Charts on a slide: create_matplotlib_chart and add_charts               *)
(***************************************************************************)
\* a plotted value: a number, or the None a line chart is padded with
Num(x) == [n |-> x]
PyNone == [none |-> TRUE]

\* isinstance(val, (list, tuple)) and all(isinstance(v, (int, float)) ...):
\* of the values a chart dict holds here, the lists of numbers (the empty
\* list included) and not the texts or the lists of labels
IsSerie(val) == val.txt = "" /\ val.labels = <<>>

\* series_keys: the keys of the series, in the order of the dict
RECURSIVE SeriesKeys(_)
SeriesKeys(chart_info) ==
    IF chart_info = <<>> THEN <<>>
    ELSE LET e == Head(chart_info)
         IN  (IF e.k \notin ReservedChartKeys /\ IsSerie(e.v) THEN <<e.k>> ELSE <<>>)
                \o SeriesKeys(Tail(chart_info))

\* create_matplotlib_chart with a plausible slip: a long series is not cut
NormalizaVals_SinCorte(vals, nlabels, fill) ==
    IF Len(vals) < nlabels
    THEN [k \in 1..nlabels |-> IF k <= Len(vals) THEN Num(vals[k]) ELSE fill]
    ELSE [k \in 1..Len(vals) |-> Num(vals[k])]

\* "Normalizar longitud de vals para que coincida con las etiquetas"
NormalizaVals(vals, nlabels, fill) ==
    IF Len(vals) < nlabels
    THEN [k \in 1..nlabels |-> IF k <= Len(vals) THEN Num(vals[k]) ELSE fill]
    ELSE IF Len(vals) > nlabels
    THEN [k \in 1..nlabels |-> Num(vals[k])]
    ELSE [k \in 1..Len(vals) |-> Num(vals[k])]

\* create_matplotlib_chart: what is plotted, and whether the image is saved
\* (the script returns before savefig for a bar chart without series)
create_matplotlib_chart(chart_info, im) ==
    LET ctype  == DictGet(chart_info, "type", CText("")).txt
        labels == DictGet(chart_info, "labels", CLabels(<<>>)).labels
        keys   == SeriesKeys(chart_info)
        Plot(fill) == [n \in 1..Len(keys) |->
                         [key  |-> keys[n],
                          vals |-> NormalizaVals(DictGet(chart_info, keys[n], CSerie(<<>>)).vals,
                                                 Len(labels), fill)]]
    IN  IF ctype = "bar"
        THEN [ctype |-> ctype, nlabels |-> Len(labels),
              saved |-> ~(im = "cli" /\ keys = <<>>), series |-> Plot(Num(0))]
        ELSE IF ctype = "line"
        THEN [ctype |-> ctype, nlabels |-> Len(labels), saved |-> TRUE,
              series |-> Plot(PyNone)]
        ELSE [ctype |-> ctype, nlabels |-> Len(labels), saved |-> TRUE, series |-> <<>>]

\* a shape name: its fixed text, then the characters of its number
Marcador(num) == <<"Marcador de posición de imagen ">> \o num
Titulo1 == <<"Título 1">>

\* replacements_chart of generar_contenido
replacements_chart ==
    << Marcador(<<"6">>), Marcador(<<"9">>), Marcador(<<"1", "1">>),
       Marcador(<<"1", "0">>), Marcador(<<"1", "2">>) >>

\* a < b for two strings of digits, as str compares them
RECURSIVE LexLess(_, _)
LexLess(a, b) ==
    IF b = <<>> THEN FALSE
    ELSE IF a = <<>> THEN TRUE
    ELSE IF Head(a) # Head(b) THEN DigitVal(Head(a)) < DigitVal(Head(b))
    ELSE LexLess(Tail(a), Tail(b))

\* s1.name < s2.name for two placeholder names
NameLess(n1, n2) == LexLess(Tail(n1), Tail(n2))

\* sorted(to_sort, key=lambda s: s.name): stable; the list holds positions
\* of shapes on the slide
RECURSIVE InsertSorted(_, _, _)
InsertSorted(sorted, x, shapes) ==
    IF sorted = <<>> THEN <<x>>
    ELSE IF NameLess(shapes[x], shapes[Head(sorted)])
    THEN <<x>> \o sorted
    ELSE <<Head(sorted)>> \o InsertSorted(Tail(sorted), x, shapes)

RECURSIVE SortedByName(_, _)
SortedByName(to_sort, shapes) ==
    IF to_sort = <<>> THEN <<>>
    ELSE InsertSorted(SortedByName(SubSeq(to_sort, 1, Len(to_sort) - 1), shapes),
                      to_sort[Len(to_sort)], shapes)

\* the positions, in slide order, of the shapes whose name is in names
ShapesWhere(shapes, names) ==
    LET Found[k \in 0..Len(shapes)] ==
            IF k = 0 THEN <<>>
            ELSE Found[k - 1] \o (IF shapes[k] \in names THEN <<k>> ELSE <<>>)
    IN  Found[Len(shapes)]

\* to_sort: the service filters the shapes of the slide, the script looks
\* for each name of replacements_chart in turn
ToSort(shapes, im) ==
    IF im = "http"
    THEN ShapesWhere(shapes, {replacements_chart[n] : n \in 1..Len(replacements_chart)})
    ELSE LET ByName[n \in 0..Len(replacements_chart)] ==
                 IF n = 0 THEN <<>>
                 ELSE ByName[n - 1] \o ShapesWhere(shapes, {replacements_chart[n]})
         IN  ByName[Len(replacements_chart)]

\* add_charts: for every chart inserted, the position on the slide of the
\* placeholder it replaces and what create_matplotlib_chart plots
add_charts(shapes, charts, im) ==
    LET to_sort            == ToSort(shapes, im)
        chart_placeholders == SortedByName(to_sort, shapes)
        count == IF Len(charts) < Len(chart_placeholders)
                 THEN Len(charts) ELSE Len(chart_placeholders)
    IN  [n \in 1..count |->
            LET placeholder == IF im = "cli" THEN to_sort[n] ELSE chart_placeholders[n]
                chart_info  == charts[n].v
            IN  [placeholder |-> placeholder,
                 chart |-> charts[n].k,
                 plot |-> create_matplotlib_chart(chart_info, im)]]

(***************************************************************************)
(* generate: inputs                                                        *)
(***************************************************************************)
LogoA == VStr(<<"A", "C", "M", "E", ".", "p", "n", "g">>)
LogoB == VStr(<<"B", "A", "N", "C", "O", ".", "p", "n", "g">>)

\* the longest "slides" list of a generate request
MaxSlides == 2

\* product types of the slides of a generate request
SlideTypes == {uas, wazuh}

\* a slide of a generate request: its type, the charts of its content, and
\* the names of the shapes of the slide of its template, in slide order
SlideItem(type, charts, shapes) == [type |-> VStr(type), charts |-> charts, shapes |-> shapes]

SlideLists(n) == SeqsUpTo({SlideItem(t, <<>>, <<>>) : t \in SlideTypes}, n)

GenData(impls, logos, saves, splits, slideLists) ==
    { [impl |-> im, logo |-> lg, save |-> sv, split |-> sp, slides |-> sl,
       logo_base64 |-> VMissing] :
        im \in impls, lg \in logos, sv \in saves, sp \in splits, sl \in slideLists }

\* the processes that may run generate
RunIds == {1, 2}

NewRun ==
    [pc |-> "inicio", split |-> VMissing, empresa |-> <<>>,
     portada |-> NoPath, cierre |-> NoPath, contenido_files |-> <<>>,
     types |-> <<>>, portada_pdf |-> NoPath, cierre_pdf |-> NoPath,
     k |-> 1, pdf_files_to_merge |-> <<>>, informe_names |-> <<>>,
     informes |-> <<>>, printed |-> FALSE,
     \* the decks handed to convert_to_pdf so far, in order
     convertidos |-> <<>>,
     logo_stream |-> NoStream, error |-> "none",
     \* per slide, the charts add_charts has inserted
     graficos |-> <<>>]

GenInit(runIds, dataSets) ==
    /\ runs = runIds
    /\ gdata \in [runIds -> dataSets]
    /\ fs = [p \in {} |-> <<>>]
    /\ run = [r \in runIds |-> NewRun]

(***************************************************************************)
(* generate, step by step (main of generate_pdf.py / generate_report)      *)
(***************************************************************************)
\* split, logo_stream, empresa, and the test of data["save"]
Iniciar(r) ==
    /\ r \in runs
    /\ run[r].pc = "inicio"
    /\ LET d     == gdata[r]
           split == IF d.split = VMissing /\ d.impl = "http" THEN VInt(0) ELSE d.split
           logo  == get_logo_from_base64(d.logo_base64, d.impl)
       IN  IF logo.raises
           THEN run' = [run EXCEPT ![r] =
                   [@ EXCEPT !.split = split, !.error = logo.exc, !.pc = "failed"]]
           ELSE run' = [run EXCEPT ![r] =
                   [@ EXCEPT !.split = split,
                             !.logo_stream = logo.stream,
                             !.empresa = Empresa(d.logo),
                             !.error = IF d.save = VMissing THEN "KeyError" ELSE "none",
                             !.pc = IF d.save = VMissing THEN "failed"
                                    ELSE IF Truthy(d.save) THEN "portada"
                                    ELSE "contenido"]]
    /\ UNCHANGED <<runs, gdata, fs>>
    /\ UNCHANGED bvars

\* generar_portada
GenerarPortada(r) ==
    /\ r \in runs
    /\ run[r].pc = "portada"
    /\ fs' = WriteFile(fs, PortadaPptx, <<Page("pptx", "portada", r, 0)>>)
    /\ run' = [run EXCEPT ![r] = [@ EXCEPT !.portada = PortadaPptx, !.pc = "cierre"]]
    /\ UNCHANGED <<runs, gdata>>
    /\ UNCHANGED bvars

\* generar_cierre
GenerarCierre(r) ==
    /\ r \in runs
    /\ run[r].pc = "cierre"
    /\ fs' = WriteFile(fs, CierrePptx, <<Page("pptx", "cierre", r, 0)>>)
    /\ run' = [run EXCEPT ![r] = [@ EXCEPT !.cierre = CierrePptx, !.pc = "contenido"]]
    /\ UNCHANGED <<runs, gdata>>
    /\ UNCHANGED bvars

\* one iteration of the loop of generar_contenido
GenerarContenido(r) ==
    /\ r \in runs
    /\ run[r].pc = "contenido"
    /\ run[r].k <= Len(gdata[r].slides)
    /\ LET slide_item  == gdata[r].slides[run[r].k]
           output_path == ContenidoPptx(slide_item.type.s)
           charts      == slide_item.charts
           \* "if charts: add_charts(...)"
           placed      == IF charts # <<>>
                          THEN add_charts(slide_item.shapes, charts, gdata[r].impl)
                          ELSE <<>>
           \* a chart whose image was not saved: add_picture finds either no
           \* file /tmp/{name}.png or the one an earlier run left there
           unsaved     == \E n \in 1..Len(placed) : ~placed[n].plot.saved
       IN  \/ /\ fs' = WriteFile(fs, output_path, <<Page("pptx", "contenido", r, run[r].k)>>)
              /\ run' = [run EXCEPT ![r] =
                      [@ EXCEPT !.contenido_files = Append(@, output_path),
                                !.graficos = Append(@, placed),
                                !.k = @ + 1]]
           \/ /\ unsaved
              /\ run' = [run EXCEPT ![r] =
                      [@ EXCEPT !.error = "FileNotFoundError", !.pc = "failed"]]
              /\ UNCHANGED fs
    /\ UNCHANGED <<runs, gdata>>
    /\ UNCHANGED bvars

\* generar_contenido returns; types = [slide.get("type", "") ...]
FinContenido(r) ==
    /\ r \in runs
    /\ run[r].pc = "contenido"
    /\ run[r].k > Len(gdata[r].slides)
    /\ run' = [run EXCEPT ![r] =
            [@ EXCEPT !.types = [n \in 1..Len(gdata[r].slides) |-> gdata[r].slides[n].type.s],
                      !.k = 1,
                      !.pc = IF Truthy(gdata[r].save) THEN "conv_portada" ELSE "montar"]]
    /\ UNCHANGED <<runs, gdata, fs>>
    /\ UNCHANGED bvars

\* portada_pdf = convert_to_pdf(portada)
ConvertirPortada(r) ==
    /\ r \in runs
    /\ run[r].pc = "conv_portada"
    /\ fs' = WriteFile(fs, PdfPath(run[r].portada), ToPdf(fs[run[r].portada]))
    /\ run' = [run EXCEPT ![r] =
            [@ EXCEPT !.portada_pdf = PdfPath(run[r].portada),
                      !.convertidos = Append(@, run[r].portada),
                      !.pc = "conv_cierre"]]
    /\ UNCHANGED <<runs, gdata>>
    /\ UNCHANGED bvars

\* cierre_pdf = convert_to_pdf(cierre)
ConvertirCierre(r) ==
    /\ r \in runs
    /\ run[r].pc = "conv_cierre"
    /\ fs' = WriteFile(fs, PdfPath(run[r].cierre), ToPdf(fs[run[r].cierre]))
    /\ run' = [run EXCEPT ![r] =
            [@ EXCEPT !.cierre_pdf = PdfPath(run[r].cierre),
                      !.convertidos = Append(@, run[r].cierre),
                      !.pc = "montar"]]
    /\ UNCHANGED <<runs, gdata>>
    /\ UNCHANGED bvars

\* the list a report starts from: the cover when there is one
ConPortada(l) == IF l.portada_pdf # NoPath THEN <<l.portada_pdf>> ELSE <<>>

\* Montar with a plausible slip: the cover is converted again when the
\* assembly starts, instead of using the pre-converted PDF
Montar_Reconvierte(r) ==
    /\ r \in runs
    /\ run[r].pc = "montar"
    /\ LET l == run[r]
           n == Len(l.contenido_files)
       IN  run' = [run EXCEPT ![r] =
               [@ EXCEPT !.pdf_files_to_merge = ConPortada(l),
                         !.convertidos = IF l.portada_pdf # NoPath
                                         THEN Append(@, l.portada) ELSE @,
                         !.pc = IF SplitEquals(l.split, 0)
                                THEN (IF n = 0 THEN "unir" ELSE "convertir")
                                ELSE (IF n = 0 THEN "imprimir" ELSE "convertir")]]
    /\ UNCHANGED <<runs, gdata, fs>>
    /\ UNCHANGED bvars

\* the branch on split; pdf_files_to_merge starts with the cover
Montar(r) ==
    /\ r \in runs
    /\ run[r].pc = "montar"
    /\ LET l == run[r]
           n == Len(l.contenido_files)
       IN  run' = [run EXCEPT ![r] =
               [@ EXCEPT !.pdf_files_to_merge = ConPortada(l),
                         !.pc = IF SplitEquals(l.split, 0)
                                THEN (IF n = 0 THEN "unir" ELSE "convertir")
                                ELSE (IF n = 0 THEN "imprimir" ELSE "convertir")]]
    /\ UNCHANGED <<runs, gdata, fs>>
    /\ UNCHANGED bvars

\* convert_to_pdf of the k-th content deck, appended to pdf_files_to_merge
ConvertirContenido(r) ==
    /\ r \in runs
    /\ run[r].pc = "convertir"
    /\ LET l    == run[r]
           pptx == l.contenido_files[l.k]
           last == l.k = Len(l.contenido_files)
       IN  /\ fs' = WriteFile(fs, PdfPath(pptx), ToPdf(fs[pptx]))
           /\ run' = [run EXCEPT ![r] =
                   [@ EXCEPT !.pdf_files_to_merge = Append(@, PdfPath(pptx)),
                             !.convertidos = Append(@, pptx),
                             !.k = IF SplitEquals(l.split, 0) THEN l.k + 1 ELSE l.k,
                             !.pc = IF SplitEquals(l.split, 0) /\ ~last
                                    THEN "convertir" ELSE "unir"]]
    /\ UNCHANGED <<runs, gdata>>
    /\ UNCHANGED bvars

\* the closing is appended and unir_pdfs writes the report
Unir(r) ==
    /\ r \in runs
    /\ run[r].pc = "unir"
    /\ LET l     == run[r]
           paths == l.pdf_files_to_merge
                       \o (IF l.cierre_pdf # NoPath THEN <<l.cierre_pdf>> ELSE <<>>)
           zero  == SplitEquals(l.split, 0)
           out   == IF zero THEN InformePath(l.empresa, <<>>, VInt(0))
                    ELSE InformePath(l.empresa, l.types[l.k], l.split)
           pages == MergePages(paths, fs)
           more  == ~zero /\ l.k < Len(l.contenido_files)
       IN  /\ fs' = WriteFile(fs, out, pages)
           /\ run' = [run EXCEPT ![r] =
                   [@ EXCEPT !.informe_names = Append(@, out),
                             !.informes = Append(@, [path |-> out, pages |-> pages]),
                             !.pdf_files_to_merge = IF more THEN ConPortada(l) ELSE paths,
                             !.k = IF zero THEN l.k ELSE l.k + 1,
                             !.pc = IF more THEN "convertir" ELSE "imprimir"]]
    /\ UNCHANGED <<runs, gdata>>
    /\ UNCHANGED bvars

\* print(json.dumps({"file_names": ...})) / return {"file_names": ...}
Imprimir(r) ==
    /\ r \in runs
    /\ run[r].pc = "imprimir"
    /\ run' = [run EXCEPT ![r] = [@ EXCEPT !.printed = TRUE, !.pc = "fin"]]
    /\ UNCHANGED <<runs, gdata, fs>>
    /\ UNCHANGED bvars

NextGen ==
    \E r \in RunIds :
        \/ Iniciar(r)
        \/ GenerarPortada(r)
        \/ GenerarCierre(r)
        \/ GenerarContenido(r)
        \/ FinContenido(r)
        \/ ConvertirPortada(r)
        \/ ConvertirCierre(r)
        \/ Montar(r)
        \/ ConvertirContenido(r)
        \/ Unir(r)
        \/ Imprimir(r)

(***************************************************************************)
(* Specifications                                                          *)
(***************************************************************************)
\* values of main["fecha_portada"]
FechaSamples ==
    { VMissing, VNull, VStr(<<>>), VInt(0), VFlt(0), VBool(FALSE), VBool(TRUE),
      VList(0), VList(2), VNaN, VInf,
      VInt(1), VInt(-1), VInt(45991), VInt(46022), VInt(2958465), VInt(2958466),
      VInt(-693593), VInt(-693594), VInt(MaxTimedeltaDays), VInt(MaxTimedeltaDays + 1),
      VFlt(5), VFlt(-5), VFlt(459915), VInt(2), VInt(60), VInt(61),
      VStr(<<"2", "0", "2", "5", "-", "1", "2">>),
      VStr(<<"2", "0", "2", "5", "-", "1">>),
      VStr(<<"2", "0", "2", "5", "-", "1", "3">>),
      VStr(<<"0", "0", "0", "0", "-", "0", "1">>),
      VStr(<<"0", "9", "9", "9", "-", "0", "2">>),
      VStr(<<"2", "0", "2", "5", "-", "1", "2", "-", "2", "5">>),
      VStr(<<"2", "0", "2", "5", "-", "1", "2", "-", "2", "5", "T", "1", "0", ":", "0", "0", ":", "0", "0", "Z">>),
      VStr(<<"2", "0", "2", "5", "-", "0", "2", "-", "3", "0">>),
      VStr(<<"2", "0", "2", "4", "-", "0", "2", "-", "2", "9">>),
      VStr(<<"a", "b", "c">>),
      VStr(<<"2", "0", "2", "5", "-", "1", "2", " ">>),
      VStr(<<"2", "0", "2", "5", "-", "1", "2", "-", "2", "5", " ", "1", "0", ":", "0", "0">>),
      VStr(<<"2", "0", "2", "5", "-", "1", "2", "-", "2", "5", "T", "2", "5", ":", "0", "0">>),
      VStr(<<"9", "9", "9", "9", "-", "1", "2">>),
      VStr(<<"2", "0", "2", "5", "-", "1", "2", "-", "3", "1", "T", "2", "3", ":", "3", "0", ":", "0", "0", "-", "0", "5", ":", "0", "0">>),
      VStr(<<"2", "0", "2", "5", "-", "0", "1", "-", "0", "1", "T", "0", "0", ":", "0", "0", ":", "0", "0", "Z">>),
      VStr(<<"2", "0", "2", "5", "-", "1", "2", "T", "1", "0", ":", "0", "0">>) }

\* no generate run
NoGenerate ==
    /\ runs = {}
    /\ gdata = [r \in {} |-> 0]
    /\ fs = [p \in {} |-> <<>>]
    /\ run = [r \in {} |-> 0]

\* no build-structure run
NoBuildStructure ==
    /\ impl = "cli"
    /\ request = [main |-> [fecha_portada |-> VMissing, has_slides |-> TRUE, slides |-> <<>>],
                  products |-> <<>>]
    /\ charts_dir = <<>>
    /\ main = request.main
    /\ pc = "idle"
    /\ i = 1
    /\ actual_product = VStr(<<>>)
    /\ parse_products = <<>>
    /\ j = 1
    /\ w = 1
    /\ chart_defs = <<>>
    /\ chart_data = <<>>
    /\ build = NoBuild
    /\ result = "none"
    /\ error = "none"

\* build-structure over every list of up to MaxRecords sample records
Init ==
    /\ BuildInit({VStr(<<"2", "0", "2", "5", "-", "1", "2">>)},
                 SeqsUpTo(RecordSamples, MaxRecords))
    /\ NoGenerate

Spec == Init /\ [][Next]_vars

\* the date block of build-structure over every sample date, no records
InitFecha == BuildInit(FechaSamples, {<<>>}) /\ NoGenerate

NextFecha == NormalizarFecha \/ FinAgrupar \/ Terminar

SpecFecha == InitFecha /\ [][NextFecha]_vars

\* one generate run
InitGen ==
    /\ NoBuildStructure
    /\ GenInit({1}, GenData({"cli", "http"}, {LogoA},
                            {VBool(TRUE), VBool(FALSE), VInt(1), VMissing},
                            {VMissing, VInt(0), VInt(1), VInt(2)},
                            SlideLists(MaxSlides)))

SpecGen == InitGen /\ [][NextGen]_vars

\* two runs of generate_pdf.py started by the workflow for two clients:
\* two processes over the same /data directory
MaxSlidesConc == 1

InitConc ==
    /\ NoBuildStructure
    /\ GenInit({1, 2}, GenData({"cli"}, {LogoA, LogoB},
                               {VBool(TRUE), VBool(FALSE)},
                               {VInt(0), VInt(1)},
                               SlideLists(MaxSlidesConc)))
    /\ gdata[1].logo = LogoA
    /\ gdata[2].logo = LogoB

SpecConc == InitConc /\ [][NextGen]_vars

(***************************************************************************)
(* What the input determines, stated independently of the loops            *)
(***************************************************************************)
\* the product of the n-th input record: its own "product" value, else the
\* value of the nearest earlier record that has one, else ""
ProductOf(ps, n) ==
    LET having == {m \in 1..n : DictHas(ps[m], "product")}
    IN  IF having = {} THEN VStr(<<>>)
        ELSE DictGet(ps[CHOOSE m \in having : \A o \in having : o <= m],
                     "product", VStr(<<>>))

\* positions of the records of product key, ascending
PositionsOf(ps, key) == {n \in 1..Len(ps) : ProductOf(ps, n) = key}

\* the records of ps at the positions pos, in input order
RECURSIVE Pick(_, _, _)
Pick(ps, pos, n) ==
    IF n > Len(ps) THEN <<>>
    ELSE (IF n \in pos THEN <<ps[n]>> ELSE <<>>) \o Pick(ps, pos, n + 1)

\* the distinct products of ps in the order of their first appearance
RECURSIVE FirstAppearances(_, _)
FirstAppearances(ps, n) ==
    IF n > Len(ps) THEN <<>>
    ELSE (IF \E m \in 1..(n - 1) : ProductOf(ps, m) = ProductOf(ps, n)
          THEN <<>> ELSE <<ProductOf(ps, n)>>) \o FirstAppearances(ps, n + 1)

\* the slides list the request came with (none: the empty list)
SlidesRecibidos == IF request.main.has_slides THEN request.main.slides ELSE <<>>

\* the descriptors this run appended
SlidesNuevos == SubSeq(main.slides, Len(SlidesRecibidos) + 1, Len(main.slides))

(***************************************************************************)
(* C1 - Grouping.  Once the grouping loop is over, the buckets partition   *)
(* the input records: the bucket of a key holds exactly the records whose  *)
(* product is that key (own "product" value, else the one carried over     *)
(* from the nearest earlier record, else ""), in input order, and every    *)
(* record lies in exactly one bucket.                                      *)
(***************************************************************************)
C1_GroupingPartitions ==
    (pc \in {"slides", "semanas", "descriptor", "done", "failed"}) =>
        LET ps == request.products
        IN  /\ \A a, b \in 1..Len(parse_products) :
                   parse_products[a].k = parse_products[b].k => a = b
            /\ \A n \in 1..Len(ps) : DictHas(parse_products, ProductOf(ps, n))
            /\ \A b \in 1..Len(parse_products) :
                   parse_products[b].v =
                       Pick(ps, PositionsOf(ps, parse_products[b].k), 1)
            /\ SumSeq([b \in 1..Len(parse_products) |-> Len(parse_products[b].v)])
                   = Len(ps)

\* grouping finished with two buckets: a record without "product" that comes
\* before any product, and a record that inherits the product of the one
\* before it
C1_Witness ==
    /\ pc = "slides"
    /\ j = 1
    /\ Len(request.products) = 3
    /\ \A n \in {1, 3} : ~DictHas(request.products[n], "product")
    /\ DictHas(request.products[2], "product")
    /\ Len(parse_products) = 2
    /\ parse_products[1].k = VStr(<<>>)
    /\ Len(parse_products[2].v) = 2

(***************************************************************************)
(* C2 - Slide descriptor list.  When build-structure succeeds,             *)
(* main["slides"] is the list received followed by exactly one descriptor  *)
(* per distinct product, in the order of first appearance of the products  *)
(* in the input, each with type equal to the product key.                  *)
(***************************************************************************)
C2_SlideDescriptors ==
    (result = "ok") =>
        LET keys == FirstAppearances(request.products, 1)
        IN  /\ Len(main.slides) = Len(SlidesRecibidos) + Len(keys)
            /\ SubSeq(main.slides, 1, Len(SlidesRecibidos)) = SlidesRecibidos
            /\ \A n \in 1..Len(keys) : SlidesNuevos[n].type = keys[n]

\* a successful run that received a slide and appended two descriptors, the
\* second of them for a product without charts in its slide
C2_Witness ==
    /\ result = "ok"
    /\ Len(SlidesRecibidos) = 1
    /\ Len(SlidesNuevos) = 2
    /\ SlidesNuevos[1].type # SlidesNuevos[2].type
    /\ SlidesNuevos[1].slide.charts # <<>>
    /\ SlidesNuevos[2].slide.charts = <<>>

\* the records of product key that build_slide processes as weeks: those
\* before the first sugerencia_version row that are not text rows
SemanaKey(rec) == Strip(DictGet(rec, "Semana", VStr(<<>>)).s)

WeekRows(ps, key) ==
    LET records == Pick(ps, PositionsOf(ps, key), 1)
        stops   == {n \in 1..Len(records) : SemanaKey(records[n]) = sugerencia_version}
        stop    == IF stops = {} THEN Len(records) + 1
                   ELSE CHOOSE n \in stops : \A m \in stops : n <= m
    IN  SelectSeq(SubSeq(records, 1, stop - 1), LAMBDA rec : SemanaKey(rec) \notin slide_info)

\* the integer-coerced values of column col over the weeks, and their sum
ColumnValues(weeks, col) ==
    [n \in 1..Len(weeks) |-> CoerceInt(DictGet(weeks[n], col, VInt(0))).val]

ColumnTotal(weeks, col) == SumSeq(ColumnValues(weeks, col))

\* the chart definitions of product key, {} when it has no file
DefsOf(key) == DictGet(charts_dir, key, <<>>)

\* the series declared for a product, in chart order and series order:
\* [chart, serie, col]
RECURSIVE DeclaredSeries(_)
DeclaredSeries(defs) ==
    IF defs = <<>> THEN <<>>
    ELSE [n \in 1..Len(Head(defs).v) |->
             [chart |-> Head(defs).k, serie |-> Head(defs).v[n].k, col |-> Head(defs).v[n].v]]
         \o DeclaredSeries(Tail(defs))

(***************************************************************************)
(* C3 - KPI totals.  For every series declared in the chart definitions of *)
(* a product, the kpis text of its slide has a line "<column>: <total>"    *)
(* exactly when the sum of the series' coerced values over the processed   *)
(* weeks is positive, the total shown is that sum, and the lines follow    *)
(* the order of the declarations.                                          *)
(***************************************************************************)
C3_KpiTotals ==
    \A d \in 1..Len(SlidesNuevos) :
        LET key    == SlidesNuevos[d].type
            kpis   == SlidesNuevos[d].slide.kpis
            weeks  == WeekRows(request.products, key)
            series == DeclaredSeries(DefsOf(key))
            LinesOf(col) == {p \in 1..Len(kpis) : kpis[p].nombre = col}
        IN  /\ \A n \in 1..Len(series) :
                  /\ (LinesOf(series[n].col) # {}) <=> (ColumnTotal(weeks, series[n].col) > 0)
                  /\ \A p \in LinesOf(series[n].col) :
                        kpis[p].total = ColumnTotal(weeks, series[n].col)
            /\ \A n1, n2 \in 1..Len(series) :
                  (/\ n1 < n2
                   /\ ColumnTotal(weeks, series[n1].col) > 0
                   /\ ColumnTotal(weeks, series[n2].col) > 0)
                  => \E p1 \in LinesOf(series[n1].col), p2 \in LinesOf(series[n2].col) : p1 < p2

(***************************************************************************)
(* C4 - Chart series construction.  A chart defined for the product is in  *)
(* the slide's charts exactly when the sum of all values of all its series *)
(* is positive; a chart that is there has type "bar", the four week        *)
(* labels, and for every declared series the coerced values of its column  *)
(* in the order of the processed weeks.  No other chart is in the slide.   *)
(***************************************************************************)
C4_ChartSeries ==
    \A d \in 1..Len(SlidesNuevos) :
        LET key    == SlidesNuevos[d].type
            charts == SlidesNuevos[d].slide.charts
            weeks  == WeekRows(request.products, key)
            defs   == DefsOf(key)
            Total(c) == SumSeq([n \in 1..Len(defs[c].v) |-> ColumnTotal(weeks, defs[c].v[n].v)])
        IN  /\ \A c \in 1..Len(defs) :
                  /\ DictHas(charts, defs[c].k) <=> (Total(c) > 0)
                  /\ DictHas(charts, defs[c].k) =>
                        LET ch == DictGet(charts, defs[c].k, <<>>)
                        IN  /\ DictGet(ch, "type", CText("")) = CText("bar")
                            /\ DictGet(ch, "labels", CText("")) = CLabels(WeekLabels(impl))
                            /\ Len(WeekLabels(impl)) = 4
                            /\ \A n \in 1..Len(defs[c].v) :
                                  DictGet(ch, defs[c].v[n].k, CText(""))
                                     = CSerie(ColumnValues(weeks, defs[c].v[n].v))
                            /\ Len(ch) = 2 + Len(defs[c].v)
            /\ \A c \in 1..Len(charts) : \E e \in 1..Len(defs) : defs[e].k = charts[c].k

\* a slide was built from two weeks for a product with two charts: one is in
\* the slide with a series of two values, the other (total not positive) is not
C4_Witness ==
    \E d \in 1..Len(SlidesNuevos) :
        LET charts == SlidesNuevos[d].slide.charts
            defs   == DefsOf(SlidesNuevos[d].type)
        IN  /\ Len(defs) = 2
            /\ Len(charts) = 1
            /\ Len(charts[1].v) = 4
            /\ \E n \in 3..4 : Len(charts[1].v[n].v.vals) = 2

(***************************************************************************)
(* C5 - Date normalisation is total.  Whatever main["fecha_portada"] is    *)
(* (missing, empty, zero, a string, a number, another type), the date      *)
(* block raises nothing and leaves fecha_portada equal to "<month> <year>" *)
(* with the month one of the twelve names of MESES_ES, or to "Fecha no     *)
(* válida"; a missing or falsy value and a string that neither parser      *)
(* accepts give "Fecha no válida".                                         *)
(***************************************************************************)
IsMesAnio(v) ==
    /\ v.t = "texto"
    /\ Len(v.s) = 3
    /\ \E m \in 1..12 : v.s[1] = MESES_ES[m]
    /\ v.s[2] = " "
    /\ \E y \in MINYEAR..MAXYEAR : v.s[3] = ToString(y)

C5_FechaTotal ==
    /\ error = "none"
    /\ pc # "failed"
    /\ (pc # "fecha") =>
          LET f0 == request.main.fecha_portada
              f1 == main.fecha_portada
          IN  /\ f1 = FechaNoValida \/ IsMesAnio(f1)
              /\ ~Truthy(f0) => f1 = FechaNoValida
              /\ (f0.t = "str" /\ ~StrptimeYm(f0.s).ok /\ ~FromIsoFormat(ReplaceZ(f0.s)).ok)
                    => f1 = FechaNoValida

\* the date block has run on a number whose date lies outside the range of
\* datetime and has answered "Fecha no válida"
C5_Witness ==
    /\ pc = "agrupar"
    /\ request.main.fecha_portada = VInt(2958466)
    /\ main.fecha_portada = FechaNoValida

(***************************************************************************)
(* The parts a run is meant to put into its reports                        *)
(***************************************************************************)
CoverOf(r)   == IF Truthy(gdata[r].save) THEN <<Page("pdf", "portada", r, 0)>> ELSE <<>>
ClosingOf(r) == IF Truthy(gdata[r].save) THEN <<Page("pdf", "cierre", r, 0)>> ELSE <<>>
ContentOf(r, n) == Page("pdf", "contenido", r, n)

Finished(r) == run[r].pc = "fin"

(***************************************************************************)
(* C6 - Single-report assembly.  A run with split equal to 0 writes        *)
(* exactly one report, made of the cover (iff save is truthy), the content *)
(* PDFs of all slides in the order of data["slides"], and the closing (iff *)
(* save is truthy); file_names has exactly one element.                    *)
(***************************************************************************)
C6_SingleReport ==
    \A r \in runs :
        (Finished(r) /\ SplitEquals(run[r].split, 0)) =>
            /\ Len(run[r].informes) = 1
            /\ run[r].informes[1].pages =
                  CoverOf(r)
                     \o [n \in 1..Len(gdata[r].slides) |-> ContentOf(r, n)]
                     \o ClosingOf(r)
            /\ Len(run[r].informe_names) = 1

(***************************************************************************)
(* C7 - Split assembly.  A run with split different from 0 assembles one   *)
(* report per slide, the i-th made of the cover (iff save is truthy), the  *)
(* content PDF of the i-th slide only, and the closing (iff save is        *)
(* truthy); file_names has one entry per slide, in slide order.            *)
(***************************************************************************)
C7_SplitReports ==
    \A r \in runs :
        (Finished(r) /\ ~SplitEquals(run[r].split, 0)) =>
            /\ Len(run[r].informes) = Len(gdata[r].slides)
            /\ \A n \in 1..Len(run[r].informes) :
                  run[r].informes[n].pages = CoverOf(r) \o <<ContentOf(r, n)>> \o ClosingOf(r)
            /\ Len(run[r].informe_names) = Len(gdata[r].slides)
            /\ \A n \in 1..Len(run[r].informe_names) :
                  run[r].informe_names[n] =
                      InformePath(run[r].empresa, gdata[r].slides[n].type.s, run[r].split)

(***************************************************************************)
(* C8 - No contention between runs.  When two generate runs for different  *)
(* clients overlap, every report a run writes is built only from parts     *)
(* that the same run produced.                                             *)
(***************************************************************************)
C8_NoContention ==
    \A r \in runs :
        \A n \in 1..Len(run[r].informes) :
            \A p \in 1..Len(run[r].informes[n].pages) :
                run[r].informes[n].pages[p].run = r

(***************************************************************************)
(* Buckets the command-line script cannot turn into a descriptor           *)
(***************************************************************************)
Buckets == FirstAppearances(request.products, 1)

SinPlantilla == \E n \in 1..Len(Buckets) : ~DictHas(file_slide_map, Buckets[n])
SinCharts    == \E n \in 1..Len(Buckets) : ~DictHas(charts_dir, Buckets[n])
SinSlides    == ~request.main.has_slides

(***************************************************************************)
(* C9 - Fatal errors of the command-line build_structure, as claimed.  If  *)
(* a bucket key is not in the template map, or a bucket has no chart file, *)
(* or main has no "slides" list, the run aborts with an exception and      *)
(* never prints the ok result; ok is printed only after every bucket was   *)
(* turned into a descriptor.                                               *)
(***************************************************************************)
C9_FatalErrors ==
    (impl = "cli") =>
        /\ (SinPlantilla \/ SinCharts \/ SinSlides) =>
              /\ result # "ok"
              /\ pc # "done"
              /\ (pc = "failed" => result = "exception")
        /\ (result = "ok") => Len(SlidesNuevos) = Len(Buckets)

(***************************************************************************)
(* C9, amended - as C9, but a missing "slides" list is fatal only when     *)
(* there is at least one bucket: with an empty products list main["slides"]*)
(* is never touched and the run prints ok.                                 *)
(***************************************************************************)
C9_FatalErrorsAmended ==
    (impl = "cli") =>
        /\ (SinPlantilla \/ SinCharts \/ (SinSlides /\ Buckets # <<>>)) =>
              /\ result # "ok"
              /\ pc # "done"
              /\ (pc = "failed" => result = "exception")
        /\ (result = "ok") => Len(SlidesNuevos) = Len(Buckets)

\* the script aborted with KeyError on a bucket whose chart file exists and
\* whose key is not in the template map
C9_Witness ==
    /\ impl = "cli"
    /\ pc = "failed"
    /\ error = "KeyError"
    /\ result = "exception"
    /\ ~SinSlides
    /\ ~SinCharts
    /\ SinPlantilla

(***************************************************************************)
(* C10 - Silent defaults of POST /build-structure.  A product whose key    *)
(* is not in the template map gets "plantilla_contenido.pptx"; a product   *)
(* with no chart file is built with empty chart definitions (empty kpis,   *)
(* no charts); a missing "slides" list is created empty; none of these     *)
(* makes the request fail.  Any exception gives HTTP 500 and no ok result. *)
(***************************************************************************)
C10_SilentDefaults ==
    (impl = "http") =>
        /\ error \notin {"KeyError", "FileNotFoundError"}
        /\ (pc = "failed") => (result = "http500" /\ error # "none")
        /\ (pc = "done") => result = "ok"
        /\ (result = "ok") => pc = "done"
        /\ (pc \in {"slides", "semanas", "descriptor", "done"}) => main.has_slides
        /\ SinSlides => SubSeq(main.slides, 1, Len(main.slides)) = SlidesNuevos
        /\ \A d \in 1..Len(SlidesNuevos) :
              LET key == SlidesNuevos[d].type
              IN  /\ SlidesNuevos[d].file_slide =
                        (IF DictHas(file_slide_map, key)
                         THEN DictGet(file_slide_map, key, "") ELSE "plantilla_contenido.pptx")
                  /\ ~DictHas(charts_dir, key) =>
                        /\ SlidesNuevos[d].slide.kpis = <<>>
                        /\ SlidesNuevos[d].slide.charts = <<>>
        /\ (result = "ok") => Len(SlidesNuevos) = Len(Buckets)

\* the service answered ok to a request without "slides" whose two products
\* have no chart file, one of them with a key outside the template map
C10_Witness ==
    /\ impl = "http"
    /\ result = "ok"
    /\ SinSlides
    /\ Len(main.slides) = 2
    /\ \A d \in 1..2 : ~DictHas(charts_dir, main.slides[d].type)
    /\ \E d \in 1..2 : ~DictHas(file_slide_map, main.slides[d].type)
    /\ \E d \in 1..2 : DictHas(file_slide_map, main.slides[d].type)

(***************************************************************************)
(* generate-n-emp: the report of several companies                         *)
(* (main of generate_pdf_n_emp.py / generate_pdf_n_emp of app.py)          *)
(***************************************************************************)
\* company codes, as strings
CodeSamples == { <<"A">>, <<"b">>, <<"A", "-", "b">> }

\* the longest emp_codes list
MaxCodes == 3

\* "-".join(codes)
RECURSIVE Join(_)
Join(codes) ==
    IF codes = <<>> THEN <<>>
    ELSE IF Len(codes) = 1 THEN codes[1]
    ELSE codes[1] \o <<"-">> \o Join(Tail(codes))

\* os.path.join(DATA_DIR, "generados", f"informe_{f.lower()}.pdf")
InformeEmpresaPath(f) == Path("generados", <<"informe_">> \o Lower(f) \o <<".pdf">>)

\* the report generated earlier for one company: one page, known by the
\* lower-cased code of its file name
InformeGenerado(name) == <<[fmt |-> "pdf", kind |-> "informe", run |-> 0, slide |-> name]>>

\* /data/generados before the run: the reports of the companies in present
GeneradosInit(present) ==
    LET names == {Lower(f) : f \in present}
        paths == {InformeEmpresaPath(f) : f \in present}
    IN  [p \in paths |-> InformeGenerado(CHOOSE nm \in names : InformeEmpresaPath(nm) = p)]

InitNEmp ==
    /\ NoBuildStructure
    /\ runs = {1}
    /\ gdata \in [{1} -> { [impl |-> im, emp_codes |-> cs] :
                              im \in {"cli", "http"},
                              cs \in SeqsUpTo(CodeSamples, MaxCodes) }]
    /\ \E present \in SUBSET CodeSamples : fs = GeneradosInit(present)
    /\ run = [r \in {1} |-> [NewRun EXCEPT !.pc = "n_nombre"]]

\* NombreLoop with a plausible slip: the separator is added after every code
NombreLoop_SiempreGuion(r) ==
    /\ r \in runs
    /\ run[r].pc = "n_nombre"
    /\ gdata[r].impl = "cli"
    /\ run[r].k <= Len(gdata[r].emp_codes)
    /\ run' = [run EXCEPT ![r] =
            [@ EXCEPT !.empresa = @ \o gdata[r].emp_codes[run[r].k] \o <<"-">>,
                      !.k = @ + 1]]
    /\ UNCHANGED <<runs, gdata, fs>>
    /\ UNCHANGED bvars

\* one iteration of the joining loop of the script
NombreLoop(r) ==
    /\ r \in runs
    /\ run[r].pc = "n_nombre"
    /\ gdata[r].impl = "cli"
    /\ run[r].k <= Len(gdata[r].emp_codes)
    /\ LET emp_codes        == gdata[r].emp_codes
           length_emp_codes == Len(emp_codes)
           emp_code         == emp_codes[run[r].k]
           \* enumerate counts from 0
           idx              == run[r].k - 1
       IN  run' = [run EXCEPT ![r] =
               [@ EXCEPT !.empresa = @ \o (IF idx # length_emp_codes - 1
                                           THEN emp_code \o <<"-">>
                                           ELSE emp_code),
                         !.k = @ + 1]]
    /\ UNCHANGED <<runs, gdata, fs>>
    /\ UNCHANGED bvars

\* empresa = empresa.lower() / empresa = "-".join(emp_codes).lower()
NombreFin(r) ==
    /\ r \in runs
    /\ run[r].pc = "n_nombre"
    /\ \/ gdata[r].impl = "cli" /\ run[r].k > Len(gdata[r].emp_codes)
          /\ run' = [run EXCEPT ![r] =
                  [@ EXCEPT !.empresa = Lower(@), !.k = 1, !.pc = "n_portada"]]
       \/ gdata[r].impl = "http"
          /\ run' = [run EXCEPT ![r] =
                  [@ EXCEPT !.empresa = Lower(Join(gdata[r].emp_codes)),
                            !.k = 1, !.pc = "n_portada"]]
    /\ UNCHANGED <<runs, gdata, fs>>
    /\ UNCHANGED bvars

\* generar_portada; the service converts the cover right away
NGenerarPortada(r) ==
    /\ r \in runs
    /\ run[r].pc = "n_portada"
    /\ LET pptx == <<Page("pptx", "portada", r, 0)>>
           f1   == WriteFile(fs, PortadaPptx, pptx)
       IN  IF gdata[r].impl = "cli"
           THEN /\ fs' = f1
                /\ run' = [run EXCEPT ![r] =
                        [@ EXCEPT !.portada = PortadaPptx, !.pc = "n_cierre"]]
           ELSE /\ fs' = WriteFile(f1, PdfPath(PortadaPptx), ToPdf(f1[PortadaPptx]))
                /\ run' = [run EXCEPT ![r] =
                        [@ EXCEPT !.portada = PortadaPptx,
                                  !.portada_pdf = PdfPath(PortadaPptx),
                                  !.convertidos = Append(@, PortadaPptx),
                                  !.pc = "n_cierre"]]
    /\ UNCHANGED <<runs, gdata>>
    /\ UNCHANGED bvars

\* generar_cierre; the service converts the closing right away
NGenerarCierre(r) ==
    /\ r \in runs
    /\ run[r].pc = "n_cierre"
    /\ LET pptx == <<Page("pptx", "cierre", r, 0)>>
           f1   == WriteFile(fs, CierrePptx, pptx)
       IN  IF gdata[r].impl = "cli"
           THEN /\ fs' = f1
                /\ run' = [run EXCEPT ![r] =
                        [@ EXCEPT !.cierre = CierrePptx, !.pc = "n_montar"]]
           ELSE /\ fs' = WriteFile(f1, PdfPath(CierrePptx), ToPdf(f1[CierrePptx]))
                /\ run' = [run EXCEPT ![r] =
                        [@ EXCEPT !.cierre = CierrePptx,
                                  !.cierre_pdf = PdfPath(CierrePptx),
                                  !.convertidos = Append(@, CierrePptx),
                                  !.pc = "n_montar"]]
    /\ UNCHANGED <<runs, gdata>>
    /\ UNCHANGED bvars

\* pdf_files_to_merge: cover, the reports of the companies, closing; the
\* script converts cover and closing while it builds the list
NMontar(r) ==
    /\ r \in runs
    /\ run[r].pc = "n_montar"
    /\ LET emp_codes == gdata[r].emp_codes
           full_informes_paths ==
               [n \in 1..Len(emp_codes) |-> InformeEmpresaPath(emp_codes[n])]
           f1 == IF gdata[r].impl = "cli"
                 THEN WriteFile(fs, PdfPath(PortadaPptx), ToPdf(fs[run[r].portada]))
                 ELSE fs
           f2 == IF gdata[r].impl = "cli"
                 THEN WriteFile(f1, PdfPath(CierrePptx), ToPdf(f1[run[r].cierre]))
                 ELSE fs
       IN  /\ fs' = f2
           /\ run' = [run EXCEPT ![r] =
                   [@ EXCEPT !.portada_pdf = PdfPath(PortadaPptx),
                             !.cierre_pdf = PdfPath(CierrePptx),
                             !.convertidos =
                                 IF gdata[r].impl = "cli"
                                 THEN @ \o <<PortadaPptx, CierrePptx>> ELSE @,
                             !.pdf_files_to_merge =
                                 <<PdfPath(PortadaPptx)>> \o full_informes_paths
                                     \o <<PdfPath(CierrePptx)>>,
                             !.pc = "n_unir"]]
    /\ UNCHANGED <<runs, gdata>>
    /\ UNCHANGED bvars

\* unir_pdfs(pdf_files_to_merge, empresa); PdfReader of a missing file raises
NUnir(r) ==
    /\ r \in runs
    /\ run[r].pc = "n_unir"
    /\ LET l   == run[r]
           out == InformePath(l.empresa, <<>>, VInt(0))
       IN  IF \E n \in 1..Len(l.pdf_files_to_merge) :
                  l.pdf_files_to_merge[n] \notin DOMAIN fs
           THEN /\ run' = [run EXCEPT ![r] = [@ EXCEPT !.pc = "failed"]]
                /\ UNCHANGED fs
           ELSE LET pages == MergePages(l.pdf_files_to_merge, fs)
                IN  /\ fs' = WriteFile(fs, out, pages)
                    /\ run' = [run EXCEPT ![r] =
                            [@ EXCEPT !.informes = Append(@, [path |-> out, pages |-> pages]),
                                      !.pc = "n_imprimir"]]
    /\ UNCHANGED <<runs, gdata>>
    /\ UNCHANGED bvars

\* {"file_name": os.path.basename(f"informe_{empresa}")}
NImprimir(r) ==
    /\ r \in runs
    /\ run[r].pc = "n_imprimir"
    /\ run' = [run EXCEPT ![r] =
            [@ EXCEPT !.informe_names = <<Path("", <<"informe_">> \o run[r].empresa)>>,
                      !.printed = TRUE, !.pc = "fin"]]
    /\ UNCHANGED <<runs, gdata, fs>>
    /\ UNCHANGED bvars

NextNEmp ==
    \E r \in RunIds :
        \/ NombreLoop(r)
        \/ NombreFin(r)
        \/ NGenerarPortada(r)
        \/ NGenerarCierre(r)
        \/ NMontar(r)
        \/ NUnir(r)
        \/ NImprimir(r)

SpecNEmp == InitNEmp /\ [][NextNEmp]_vars

(***************************************************************************)
(* C11 - Multi-company assembly.  The final report is the cover, then the  *)
(* report generated earlier for every company code in the order of         *)
(* emp_codes, then the closing; it is written as informe_<codes lower-     *)
(* cased and joined by "-">.pdf; the joining loop of the script gives the  *)
(* name "-".join(emp_codes).lower() for every list of codes.               *)
(***************************************************************************)
\* the codes lower-cased one by one, then joined
NombreEsperado(codes) == Join([n \in 1..Len(codes) |-> Lower(codes[n])])

C11_MultiCompany ==
    \A r \in runs :
        LET l     == run[r]
            codes == gdata[r].emp_codes
        IN  /\ (l.pc \notin {"n_nombre"}) => l.empresa = NombreEsperado(codes)
            /\ (l.pc \in {"n_imprimir", "fin"}) =>
                  /\ Len(l.informes) = 1
                  /\ l.informes[1].path =
                        Path("generados", <<"informe_">> \o NombreEsperado(codes) \o <<".pdf">>)
                  /\ fs[l.informes[1].path] = l.informes[1].pages
                  /\ l.informes[1].pages =
                        <<Page("pdf", "portada", r, 0)>>
                           \o [n \in 1..Len(codes) |-> InformeGenerado(Lower(codes[n]))[1]]
                           \o <<Page("pdf", "cierre", r, 0)>>

\* the script finished a report of three companies, in an order that is not
\* sorted, one of them with an upper-case code
C11_Witness ==
    \E r \in runs :
        /\ gdata[r].impl = "cli"
        /\ run[r].pc = "fin"
        /\ gdata[r].emp_codes = << <<"b">>, <<"A", "-", "b">>, <<"A">> >>
        /\ run[r].empresa = <<"b", "-", "a", "-", "b", "-", "a">>

(***************************************************************************)
(* Weekly value coercion over sample values                                *)
(***************************************************************************)
\* values of a metric column, each with the integer that truncation toward
\* zero of its decimal value gives (0 for a value that is no number)
CoercionTable ==
    { [val |-> VInt(2),                          int |-> 2],
      [val |-> VInt(-3),                         int |-> -3],
      [val |-> VFlt(37),                         int |-> 3],
      [val |-> VFlt(-27),                        int |-> -2],
      [val |-> VBool(TRUE),                      int |-> 1],
      [val |-> VStr(<<"3", ".", "7">>),          int |-> 3],
      [val |-> VStr(<<"-", "2", ".", "7">>),     int |-> -2],
      [val |-> VStr(<<" ", "4", " ">>),          int |-> 4],
      [val |-> VStr(<<".", "5">>),               int |-> 0],
      [val |-> VStr(<<"a", "b", "c">>),          int |-> 0],
      [val |-> VStr(<<>>),                       int |-> 0],
      [val |-> VStr(<<"n", "a", "n">>),          int |-> 0],
      [val |-> VStr(<<"i", "n", "f">>),          int |-> 0],
      [val |-> VNull,                            int |-> 0],
      [val |-> VNaN,                             int |-> 0],
      [val |-> VInf,                             int |-> 0],
      [val |-> VList(1),                         int |-> 0],
      [val |-> VMissing,                         int |-> 0] }

\* a weekly record of product uas with the value in column colA
\* (VMissing: the record has no such column)
RecValor(v) ==
    << Entry("Semana", VStr(<<"1">>)), Entry("detalle", VStr(<<>>)) >>
       \o (IF v = VMissing THEN <<>> ELSE << Entry("colA", v) >>)
       \o << Entry("product", VStr(uas)) >>

\* the longest list of weekly records of the coercion runs
MaxWeeks == 2

InitCoerce ==
    /\ BuildInit({VStr(<<"2", "0", "2", "5", "-", "1", "2">>)},
                 SeqsUpTo({RecValor(e.val) : e \in CoercionTable}, MaxWeeks))
    /\ NoGenerate

SpecCoerce == InitCoerce /\ [][Next]_vars

(***************************************************************************)
(* C12 - Weekly value coercion.  Every value appended to a chart series is *)
(* the truncation toward zero of the decimal value of the record's column  *)
(* when that is a number or a numeric string, and 0 when the column is     *)
(* missing, null or not parseable as a number; no value stops the run.     *)
(***************************************************************************)
ExpectedInt(rec, col) ==
    LET v == IF DictHas(rec, col) THEN DictGet(rec, col, VNull) ELSE VMissing
    IN  (CHOOSE e \in CoercionTable : e.val = v).int

C12_Coercion ==
    /\ error \notin {"OverflowError", "ValueError", "TypeError"}
    /\ pc \in {"semanas", "descriptor"} =>
          LET records == parse_products[j].v
          IN  \A c \in 1..Len(chart_data) :
                 \A n \in 1..Len(chart_data[c].v) :
                    LET serie == chart_data[c].v[n].v
                        col   == chart_defs[c].v[n].v
                    IN  /\ Len(serie) <= Len(records)
                        /\ pc = "descriptor" => Len(serie) = Len(records)
                        /\ \A k \in 1..Len(serie) : serie[k] = ExpectedInt(records[k], col)

\* date strings with the month and year a reader takes from them
FechaTable ==
    { [s |-> <<"2", "0", "2", "5", "-", "1", "2">>,
       texto |-> <<"Diciembre", " ", "2025">>],
      [s |-> <<"9", "9", "9", "9", "-", "1", "2">>,
       texto |-> <<"Diciembre", " ", "9999">>],
      [s |-> <<"0", "9", "9", "9", "-", "0", "2">>,
       texto |-> <<"Febrero", " ", "999">>],
      [s |-> <<"2", "0", "2", "5", "-", "1", "2", "-", "2", "5">>,
       texto |-> <<"Diciembre", " ", "2025">>],
      [s |-> <<"2", "0", "2", "4", "-", "0", "2", "-", "2", "9">>,
       texto |-> <<"Febrero", " ", "2024">>],
      [s |-> <<"2", "0", "2", "5", "-", "1", "2", "-", "2", "5", "T", "1", "0", ":", "0", "0", ":", "0", "0", "Z">>,
       texto |-> <<"Diciembre", " ", "2025">>],
      [s |-> <<"2", "0", "2", "5", "-", "1", "2", "-", "2", "5", " ", "1", "0", ":", "0", "0">>,
       texto |-> <<"Diciembre", " ", "2025">>],
      [s |-> <<"2", "0", "2", "5", "-", "1", "2", "-", "3", "1", "T", "2", "3", ":", "3", "0", ":", "0", "0", "-", "0", "5", ":", "0", "0">>,
       texto |-> <<"Diciembre", " ", "2025">>],
      [s |-> <<"2", "0", "2", "5", "-", "0", "1", "-", "0", "1", "T", "0", "0", ":", "0", "0", ":", "0", "0", "Z">>,
       texto |-> <<"Enero", " ", "2025">>] }

\* year, month and a time, without a day
SinDia == <<"2", "0", "2", "5", "-", "1", "2", "T", "1", "0", ":", "0", "0">>

SerialTable ==
    { [n |-> VInt(1),                    texto |-> <<"Diciembre", " ", "1899">>],
      [n |-> VInt(-1),                   texto |-> <<"Diciembre", " ", "1899">>],
      [n |-> VInt(2),                    texto |-> <<"Enero", " ", "1900">>],
      [n |-> VInt(60),                   texto |-> <<"Febrero", " ", "1900">>],
      [n |-> VInt(61),                   texto |-> <<"Marzo", " ", "1900">>],
      [n |-> VInt(45991),                texto |-> <<"Noviembre", " ", "2025">>],
      [n |-> VInt(46022),                texto |-> <<"Diciembre", " ", "2025">>],
      [n |-> VFlt(459915),               texto |-> <<"Noviembre", " ", "2025">>],
      [n |-> VFlt(5),                    texto |-> <<"Diciembre", " ", "1899">>],
      [n |-> VInt(2958465),              texto |-> <<"Diciembre", " ", "9999">>],
      [n |-> VInt(-693593),              texto |-> <<"Enero", " ", "1">>],
      [n |-> VInt(2958466),              texto |-> <<>>],
      [n |-> VInt(-693594),              texto |-> <<>>],
      [n |-> VInt(MaxTimedeltaDays),     texto |-> <<>>],
      [n |-> VInt(MaxTimedeltaDays + 1), texto |-> <<>>],
      [n |-> VInf,                       texto |-> <<>>] }

C14_ExcelSerial ==
    /\ error = "none"
    /\ (pc # "fecha") =>
          \A e \in SerialTable :
              (request.main.fecha_portada = e.n) =>
                  main.fecha_portada =
                      (IF e.texto = <<>> THEN FechaNoValida ELSE Texto(e.texto))

\* the date block has run on the serial number of the last day of November
\* 2025
C14_Witness ==
    /\ pc = "agrupar"
    /\ request.main.fecha_portada = VInt(45991)
    /\ main.fecha_portada = Texto(<<"Noviembre", " ", "2025">>)

(***************************************************************************)
(* C15 - Common parts are pre-converted once.  In a generate run the cover *)
(* and the closing are each converted to PDF exactly once when save is     *)
(* truthy and never when it is falsy, both before any content deck is      *)
(* converted; when the run ends the number of conversions is (2 if save    *)
(* else 0) plus the number of slides, with and without split.              *)
(***************************************************************************)
\* how many of the conversions made so far were of the deck at path
TimesConverted(conv, path) == Cardinality({n \in 1..Len(conv) : conv[n] = path})

C15_PreConvertedOnce ==
    \A r \in runs :
        LET l    == run[r]
            conv == l.convertidos
            save == Truthy(gdata[r].save)
            common  == {n \in 1..Len(conv) : conv[n] \in {PortadaPptx, CierrePptx}}
            content == {n \in 1..Len(conv) : conv[n] \notin {PortadaPptx, CierrePptx}}
        IN  /\ TimesConverted(conv, PortadaPptx) <= (IF save THEN 1 ELSE 0)
            /\ TimesConverted(conv, CierrePptx) <= (IF save THEN 1 ELSE 0)
            /\ \A a \in common, b \in content : a < b
            /\ content # {} =>
                  /\ TimesConverted(conv, PortadaPptx) = (IF save THEN 1 ELSE 0)
                  /\ TimesConverted(conv, CierrePptx) = (IF save THEN 1 ELSE 0)
            /\ Finished(r) =>
                  /\ TimesConverted(conv, PortadaPptx) = (IF save THEN 1 ELSE 0)
                  /\ TimesConverted(conv, CierrePptx) = (IF save THEN 1 ELSE 0)
                  /\ Len(conv) = (IF save THEN 2 ELSE 0) + Len(gdata[r].slides)

\* a run with save, split and two slides has ended after four conversions
C15_Witness ==
    \E r \in runs :
        /\ Finished(r)
        /\ Truthy(gdata[r].save)
        /\ SplitEquals(run[r].split, 1)
        /\ Len(gdata[r].slides) = 2
        /\ Len(run[r].convertidos) = 4

(***************************************************************************)
(* generate over sample values of data["logo_base64"]                      *)
(***************************************************************************)
\* strings for logo_base64, with what a reader of Base64 takes from them:
\* the decoded bytes, or none for the empty string and for a string that
\* is not Base64
LogoTable ==
    { [s |-> <<>>,                          none |-> TRUE,  bytes |-> <<>>],
      [s |-> <<"Q", "U", "J", "D">>,        none |-> FALSE, bytes |-> <<65, 66, 67>>],
      [s |-> <<"Q", "U", "I", "=">>,        none |-> FALSE, bytes |-> <<65, 66>>],
      [s |-> <<"Q", "Q", "=", "=">>,        none |-> FALSE, bytes |-> <<65>>],
      [s |-> <<"/", "+", "9", "a">>,        none |-> FALSE, bytes |-> <<255, 239, 90>>],
      [s |-> <<"Q", "U", "J">>,             none |-> TRUE,  bytes |-> <<>>],
      [s |-> <<"Q">>,                       none |-> TRUE,  bytes |-> <<>>],
      [s |-> <<"Q", "Q", "=">>,             none |-> TRUE,  bytes |-> <<>>],
      [s |-> <<"*", "*", "*", "*">>,        none |-> TRUE,  bytes |-> <<>>],
      [s |-> <<"ñ">>,                       none |-> TRUE,  bytes |-> <<>>],
      [s |-> <<"Q", "U", "J", "D", "ñ">>,   none |-> TRUE,  bytes |-> <<>>] }

InitLogo ==
    /\ NoBuildStructure
    /\ GenInit({1}, { [d EXCEPT !.logo_base64 = v] :
                        d \in GenData({"cli", "http"}, {LogoA}, {VBool(TRUE)},
                                      {VInt(0)}, SlideLists(1)),
                        v \in {VMissing, VNull} \cup {VStr(e.s) : e \in LogoTable} })

SpecLogo == InitLogo /\ [][NextGen]_vars

(***************************************************************************)
(* C16 - get_logo_from_base64 returns None when the string is empty or is  *)
(* not valid Base64, and otherwise a stream of the decoded bytes; it       *)
(* raises for no string.                                                   *)
(***************************************************************************)
C16_LogoDecoding ==
    \A r \in runs :
        /\ run[r].error \notin {"ValueError", "binascii.Error"}
        /\ (run[r].pc \notin {"inicio", "failed"}) =>
              \A e \in LogoTable :
                  (gdata[r].logo_base64 = VStr(e.s)) =>
                      run[r].logo_stream = [none |-> e.none, bytes |-> e.bytes]

(***************************************************************************)
(* generate over sample charts and templates                               *)
(***************************************************************************)
ChartLleno ==
    << Entry("type", CText("bar")), Entry("labels", CLabels(WeekLabels("cli"))),
       Entry("criticos", CSerie(<<1, 2, 3, 4>>)) >>
ChartCorto ==
    << Entry("type", CText("bar")), Entry("labels", CLabels(WeekLabels("cli"))),
       Entry("criticos", CSerie(<<5, 6>>)), Entry("altos", CSerie(<<>>)) >>
ChartLargo ==
    << Entry("type", CText("bar")), Entry("labels", CLabels(WeekLabels("cli"))),
       Entry("criticos", CSerie(<<1, 2, 3, 4, 5>>)), Entry("color", CText("rojo")) >>
ChartLinea ==
    << Entry("type", CText("line")), Entry("labels", CLabels(WeekLabels("cli"))),
       Entry("criticos", CSerie(<<7>>)) >>
ChartSinSeries ==
    << Entry("type", CText("bar")), Entry("labels", CLabels(WeekLabels("cli"))) >>
ChartSinLabels ==
    << Entry("type", CText("bar")), Entry("criticos", CSerie(<<1, 2>>)) >>

\* slide_content["charts"]: chart name -> chart
ChartsSamples ==
    { <<>>,
      << Entry("incidentes", ChartLleno) >>,
      << Entry("incidentes", ChartCorto), Entry("tickets", ChartLargo) >>,
      << Entry("incidentes", ChartLinea), Entry("tickets", ChartSinLabels),
         Entry("alertas", ChartLleno) >>,
      << Entry("incidentes", ChartSinSeries) >> }

\* the shapes of the slide of a template
ShapesSamples ==
    { << Titulo1, Marcador(<<"6">>), Marcador(<<"1", "0">>) >>,
      << Marcador(<<"1", "0">>), Titulo1, Marcador(<<"6">>) >>,
      << Titulo1 >>,
      << Marcador(<<"9">>), Marcador(<<"1", "1">>), Marcador(<<"1", "2">>),
         Marcador(<<"6">>), Marcador(<<"1", "0">>) >>,
      << Marcador(<<"6">>) >> }

InitCharts ==
    /\ NoBuildStructure
    /\ GenInit({1}, GenData({"cli", "http"}, {LogoA}, {VBool(TRUE)}, {VInt(0)},
                            { <<SlideItem(uas, c, sh)>> :
                                 c \in ChartsSamples, sh \in ShapesSamples }))

SpecCharts == InitCharts /\ [][NextGen]_vars

(***************************************************************************)
(* C17 - Series length normalization of bar charts.  Every series plotted  *)
(* has exactly as many values as the chart has labels: a shorter series is *)
(* padded with 0 at the end, a longer one is cut to its first len(labels)  *)
(* values.                                                                 *)
(***************************************************************************)
\* the values of a series of a chart of the request
SerieRecibida(r, k, nombre, key) ==
    DictGet(DictGet(gdata[r].slides[k].charts, nombre, <<>>), key, CSerie(<<>>)).vals

\* the labels of a chart of the request
LabelsRecibidas(r, k, nombre) ==
    DictGet(DictGet(gdata[r].slides[k].charts, nombre, <<>>), "labels", CLabels(<<>>)).labels

C17_SeriesLength ==
    \A r \in runs :
        \A k \in 1..Len(run[r].graficos) :
            \A p \in 1..Len(run[r].graficos[k]) :
                LET g      == run[r].graficos[k][p]
                    labels == LabelsRecibidas(r, k, g.chart)
                IN  (g.plot.ctype = "bar") =>
                        \A n \in 1..Len(g.plot.series) :
                            LET vals     == g.plot.series[n].vals
                                received == SerieRecibida(r, k, g.chart, g.plot.series[n].key)
                            IN  /\ Len(vals) = Len(labels)
                                /\ \A x \in 1..Len(vals) :
                                      vals[x] = IF x <= Len(received)
                                                THEN Num(received[x]) ELSE Num(0)

\* a bar chart with a series of five values and four labels was drawn next
\* to one with a series of two values and one with none
C17_Witness ==
    \E r \in runs :
        /\ Finished(r)
        /\ Len(run[r].graficos) = 1
        /\ Len(run[r].graficos[1]) = 2
        /\ run[r].graficos[1][1].plot.series[1].vals = <<Num(5), Num(6), Num(0), Num(0)>>
        /\ run[r].graficos[1][1].plot.series[2].vals = <<Num(0), Num(0), Num(0), Num(0)>>
        /\ run[r].graficos[1][2].plot.series[1].vals = <<Num(1), Num(2), Num(3), Num(4)>>

(***************************************************************************)
(* C18 - Chart placement.  The chart placeholders found on the slide are   *)
(* put in sorted order and the i-th chart, in the order of the charts      *)
(* mapping, replaces the i-th placeholder of that order; a placeholder     *)
(* receives at most one chart, and charts beyond the number of             *)
(* placeholders found are not inserted.                                    *)
(***************************************************************************)
\* the positions of the chart placeholders on the slide
Encontrados(shapes) ==
    {p \in 1..Len(shapes) : \E n \in 1..Len(replacements_chart) : shapes[p] = replacements_chart[n]}

\* the place of placeholder p in the order of the names
Puesto(shapes, p) ==
    Cardinality({q \in Encontrados(shapes) : NameLess(shapes[q], shapes[p])}) + 1

C18_ChartPlacement ==
    \A r \in runs :
        \A k \in 1..Len(run[r].graficos) :
            LET placed == run[r].graficos[k]
                shapes == gdata[r].slides[k].shapes
                charts == gdata[r].slides[k].charts
                found  == Encontrados(shapes)
            IN  /\ Len(placed) = IF Len(charts) < Cardinality(found)
                                 THEN Len(charts) ELSE Cardinality(found)
                /\ \A n \in 1..Len(placed) :
                      /\ placed[n].chart = charts[n].k
                      /\ placed[n].placeholder \in found
                      /\ Puesto(shapes, placed[n].placeholder) = n
                /\ \A n1, n2 \in 1..Len(placed) :
                      placed[n1].placeholder = placed[n2].placeholder => n1 = n2

(***************************************************************************)
(* C19 - Text rows.  A record whose "Semana" value, stripped of            *)
(* surrounding spaces, is "resumen", "sugerencia" or "sugerencia_version"  *)
(* sets the slide field of that name to the record's value in the pointer  *)
(* column (the second key of the first record of the product), with the    *)
(* string "null" replaced by the empty string, and contributes no value to *)
(* any chart series.                                                       *)
(***************************************************************************)
resumen == <<"r", "e", "s", "u", "m", "e", "n">>
sugerencia == <<"s", "u", "g", "e", "r", "e", "n", "c", "i", "a">>

\* the record the loop of build_slide is about to process
SemanaActual == parse_products[j].v[w]

\* the record is a text row
EsFilaDeTexto(semana) ==
    /\ DictHas(semana, "Semana")
    /\ DictGet(semana, "Semana", VNull).t = "str"
    /\ Strip(DictGet(semana, "Semana", VNull).s) \in {resumen, sugerencia, sugerencia_version}

C19_TextRows ==
    [][ (pc = "semanas" /\ EsFilaDeTexto(SemanaActual)) =>
            LET campo   == Strip(DictGet(SemanaActual, "Semana", VNull).s)
                primero == parse_products[j].v[1]
                columna == primero[2].k
                valor   == IF DictHas(SemanaActual, columna)
                           THEN DictGet(SemanaActual, columna, VNull) ELSE VStr(<<>>)
            IN  /\ pc' # "failed"
                /\ DictHas(build'.textos, campo)
                /\ DictGet(build'.textos, campo, VNull) =
                       IF valor = VStr(<<"n", "u", "l", "l">>) THEN VStr(<<>>) ELSE valor
                /\ \A n \in 1..Len(build.textos) :
                      build.textos[n].k # campo =>
                          DictGet(build'.textos, build.textos[n].k, VNull) = build.textos[n].v
                /\ chart_data' = chart_data
                /\ build'.charts = build.charts
      ]_vars

\* a slide has its "resumen" from the pointer column and an empty
\* "sugerencia_version" that came as "null", after one week was counted
C19_Witness ==
    /\ pc = "descriptor"
    /\ DictGet(build.textos, resumen, VNull) = VStr(<<"o", "k">>)
    /\ DictGet(build.textos, sugerencia_version, VNull) = VStr(<<>>)
    /\ \E c \in 1..Len(chart_data) :
          \E n \in 1..Len(chart_data[c].v) : Len(chart_data[c].v[n].v) = 1

(***************************************************************************)
(* C20 - Processing of the records of a product stops at its first         *)
(* "sugerencia_version" row: no record of the bucket after that row        *)
(* changes a text field, a chart series or a KPI of the slide, and every   *)
(* record before it is processed exactly once, in input order.             *)
(***************************************************************************)
\* the record is a "sugerencia_version" row
EsVersion(semana) ==
    /\ EsFilaDeTexto(semana)
    /\ Strip(DictGet(semana, "Semana", VNull).s) = sugerencia_version

\* the position of the first "sugerencia_version" row, or of the last record
Corte(records) ==
    LET versiones == {p \in 1..Len(records) : EsVersion(records[p])}
    IN  IF versiones = {} THEN Len(records)
        ELSE CHOOSE p \in versiones : \A q \in versiones : p <= q

\* the values column col gives to a series over the first m records
ValoresHasta(records, m, col) ==
    LET semanas == SelectSeq(SubSeq(records, 1, m), LAMBDA rec : ~EsFilaDeTexto(rec))
    IN  [n \in 1..Len(semanas) |-> CoerceInt(DictGet(semanas[n], col, VInt(0))).val]

\* chart_data after the first m records
DatosHasta(records, m, chart_definitions) ==
    [c \in 1..Len(chart_definitions) |->
        Entry(chart_definitions[c].k,
              [n \in 1..Len(chart_definitions[c].v) |->
                  Entry(chart_definitions[c].v[n].k,
                        ValoresHasta(records, m, chart_definitions[c].v[n].v))])]

\* the text field campo after the first m records
TextoHasta(records, m, campo) ==
    LET filas   == {p \in 1..m : /\ EsFilaDeTexto(records[p])
                                 /\ Strip(DictGet(records[p], "Semana", VNull).s) = campo}
        ultima  == CHOOSE p \in filas : \A q \in filas : q <= p
        columna == records[1][2].k
        valor   == IF DictHas(records[ultima], columna)
                   THEN DictGet(records[ultima], columna, VNull) ELSE VStr(<<>>)
    IN  IF filas = {} THEN VMissing
        ELSE IF valor = VStr(<<"n", "u", "l", "l">>) THEN VStr(<<>>) ELSE valor

\* the slide holds what the first m records of the bucket give, no more
SlideHasta(records, m, b) ==
    /\ \A campo \in slide_info :
          DictGet(b.textos, campo, VMissing) = TextoHasta(records, m, campo)
    /\ chart_data = DatosHasta(records, m, chart_defs)

C20_StopAtVersion ==
    /\ (pc \in {"semanas", "descriptor"}) =>
          LET records == parse_products[j].v
          IN  /\ w - 1 <= Corte(records)
              /\ (pc = "descriptor") <=> (w - 1 = Corte(records))
              /\ SlideHasta(records, w - 1, build)
    /\ (pc \in {"slides", "done"} /\ j > 1) =>
          LET records  == parse_products[j - 1].v
              slide    == main.slides[Len(main.slides)].slide
              esperado == FinishSlide(chart_defs, DatosHasta(records, Corte(records), chart_defs),
                                      NewBuild(parse_products[j - 1].k.s), impl)
          IN  /\ SlideHasta(records, Corte(records), slide)
              /\ slide.kpis = esperado.kpis
              /\ slide.charts = esperado.charts

\* the loop ended at a "sugerencia_version" row that has a weekly record
\* with values after it and a counted week before it
C20_Witness ==
    /\ pc = "descriptor"
    /\ LET records == parse_products[j].v
       IN  /\ EsVersion(records[w - 1])
           /\ w <= Len(records)
           /\ ~EsFilaDeTexto(records[w])
           /\ \E c \in 1..Len(chart_defs) : \E n \in 1..Len(chart_defs[c].v) :
                 /\ CoerceInt(DictGet(records[w], chart_defs[c].v[n].v, VInt(0))).val > 0
                 /\ Len(chart_data[c].v[n].v) = 1

(***************************************************************************)
(* C21 - Invariant of the collection loop of build_slide.  After each      *)
(* processed record, all series of all charts of the product have the same *)
(* length: the number of week records (records that are not text rows)     *)
(* processed so far.                                                       *)
(***************************************************************************)
\* the week records among the first m records
SemanasHasta(records, m) == {p \in 1..m : ~EsFilaDeTexto(records[p])}

C21_EqualLengths ==
    (pc \in {"semanas", "descriptor"}) =>
        /\ Len(chart_data) = Len(chart_defs)
        /\ \A c \in 1..Len(chart_data) :
              /\ Len(chart_data[c].v) = Len(chart_defs[c].v)
              /\ \A n \in 1..Len(chart_data[c].v) :
                    Len(chart_data[c].v[n].v) =
                        Cardinality(SemanasHasta(parse_products[j].v, w - 1))

\* two week records and a text row were processed for a product with three
\* series in two charts
C21_Witness ==
    /\ pc \in {"semanas", "descriptor"}
    /\ w = 4
    /\ Cardinality(SemanasHasta(parse_products[j].v, 3)) = 2
    /\ Len(chart_data) = 2
    /\ Len(chart_data[1].v) = 2
    /\ Len(chart_data[1].v[2].v) = 2
    /\ Len(chart_data[2].v[1].v) = 2

(***************************************************************************)
(* POST /build-structure as a function of the request                      *)
(***************************************************************************)
\* "for semana in product" of build_slide_structure, from record n on
RECURSIVE RecorrerSemanas(_, _, _, _, _, _)
RecorrerSemanas(product, n, chart_definitions, pointer_resume, datos, b) ==
    IF n > Len(product)
    THEN [raises |-> FALSE, chart_data |-> datos, build |-> b]
    ELSE LET r == ProcesaSemana(product[n], chart_definitions, pointer_resume, datos, b)
         IN  IF r.raises \/ r.stop
             THEN [raises |-> r.raises, chart_data |-> r.chart_data, build |-> r.build]
             ELSE RecorrerSemanas(product, n + 1, chart_definitions, pointer_resume,
                                  r.chart_data, r.build)

\* build_slide_structure(product, product_name, chart_definitions, pointer_resume)
build_slide_structure(product, product_name, chart_definitions, pointer_resume) ==
    LET r == RecorrerSemanas(product, 1, chart_definitions, pointer_resume,
                             NewChartData(chart_definitions), NewBuild(product_name))
    IN  FinishSlide(chart_definitions, r.chart_data, r.build, "http")

\* the output_file the service returns for the request, when none of its
\* steps raises: the date, then the slides received and one descriptor for
\* every bucket, in the order of the buckets
OutputFileHttp ==
    LET ps == request.products
        keys == FirstAppearances(ps, 1)
    IN  [fecha_portada |-> NormalizaFecha(request.main.fecha_portada),
         slides |-> SlidesRecibidos \o
            [n \in 1..Len(keys) |->
                LET product == Pick(ps, PositionsOf(ps, keys[n]), 1)
                IN  Descriptor(keys[n],
                               build_slide_structure(product, keys[n].s,
                                                     DictGet(charts_dir, keys[n], <<>>),
                                                     PointerResumen(product)),
                               DictGet(file_slide_map, keys[n], DefaultTemplate))]]

(***************************************************************************)
(* C22 - The command-line and the HTTP implementation of build-structure   *)
(* are equivalent: for every input on which the command-line script        *)
(* succeeds, POST /build-structure returns the same output_file (the same  *)
(* fecha_portada and the same slide descriptors: titles, text fields, kpis *)
(* text, charts with their labels and series, template file).              *)
(***************************************************************************)
C22_Equivalence ==
    (impl = "cli" /\ pc = "done" /\ result = "ok") =>
        /\ main.fecha_portada = OutputFileHttp.fecha_portada
        /\ main.slides = OutputFileHttp.slides

(***************************************************************************)
(* C23 - No per-slide artifact is overwritten within one generate run.     *)
(* For every slides list and every value of split, the content decks       *)
(* written for two different slides are different files, and in split mode *)
(* the final reports written for two different slides are different files, *)
(* so every path in the returned file_names holds the report of its own    *)
(* slide when the run ends.                                                *)
(***************************************************************************)
\* the content pages of the slides of run r found in a file
ContenidosEn(r, pages) ==
    {pages[p].slide : p \in {q \in 1..Len(pages) : pages[q].kind = "contenido" /\ pages[q].run = r}}

C23_NoOverwrite ==
    \A r \in runs :
        /\ \A n1, n2 \in 1..Len(run[r].contenido_files) :
              n1 # n2 => run[r].contenido_files[n1] # run[r].contenido_files[n2]
        /\ (run[r].pc # "inicio" /\ ~SplitEquals(run[r].split, 0)) =>
              /\ \A n1, n2 \in 1..Len(run[r].informe_names) :
                    n1 # n2 => run[r].informe_names[n1] # run[r].informe_names[n2]
              /\ Finished(r) =>
                    \A n \in 1..Len(run[r].informe_names) :
                        ContenidosEn(r, fs[run[r].informe_names[n]]) = {n}

====
